---- MODULE Spec2Model ----
(***************************************************************************)
(* Model of jons-mcp-reminders: the ReminderStore singleton, its           *)
(* permission handshake (store.py, get_instance / __init__ /               *)
(* _request_access_sync), the run_eventkit serializer and the server's     *)
(* startup (server.py, main).                                              *)
(***************************************************************************)
EXTENDS Naturals, Integers, Sequences, FiniteSets, TLC

(* Bounds of the model. *)
NThreads == 2
MaxCalls == 2
NTasks == 3
MaxRuns == 4

Threads == 1..NThreads
NoThread == 0
MaxAttempts == MaxCalls
Attempts == 1..MaxAttempts
Tasks == 1..NTasks

(* Exception kinds of exceptions.py, and the two non-exception results. *)
NoResult == "none"
Ok == "ok"
AccessDeniedError == "AccessDeniedError"
PermissionTimeoutError == "PermissionTimeoutError"
EventKitError == "EventKitError"
Failures == {AccessDeniedError, PermissionTimeoutError, EventKitError}

VARIABLES
    instance,       \* ReminderStore._instance: 0 is None, k the object built by attempt k
    lock,           \* ReminderStore._lock: the thread holding it, or NoThread
    pc,             \* each thread's position inside get_instance
    att,            \* each thread's object under construction (0: none)
    nAttempts,      \* EKEventStore connections created = native access requests issued
    slot,           \* per result slot: the handler's result dict and the wait signal
    native,         \* per attempt: "none", "pending" (request issued), "fired"
    late,           \* per attempt: the handler fired after the waiter had given up
    delivered,      \* per attempt: the (granted, error) pair the native layer delivered
    afterDenial,    \* per thread: its current call began after a handshake was denied
    accessGranted,  \* per object: self._access_granted
    outcome,        \* per attempt: how its initializing call ended
    ret,            \* per thread: result of the call in progress / last completed
    retInst,        \* per thread: the instance the last completed call returned
    calls,          \* number of get_instance calls made so far
    firstDone,      \* the first get_instance call of the process has completed
    inCohort,       \* per thread: its current call began before the first call completed
    cohortHandshakes, \* native access requests issued by calls of that cohort
    cohortRes,      \* per thread: what its cohort call observed
    limiter,        \* ReminderStore._limiter has been created
    borrowers,      \* the tasks holding a token of the limiter
    waitq,          \* the tasks queued for a token, oldest first
    tpc,            \* each task's position inside run_eventkit
    opResult,       \* per task: how its wrapped operation ended in the worker
    tres,           \* per task: what run_eventkit delivered to its caller
    runs,           \* number of run_eventkit calls made so far
    grantOrder,     \* the tasks in the order the permit was granted
    execOrder,      \* the tasks in the order their operations started in a worker
    mainpc,         \* server.py main: "start", "handshake", "serving", "exited"
    exitCode,       \* the process's exit status (NoExit while it runs)
    served,         \* number of tool calls the server has accepted
    ekstore,        \* the native database: its calendar items, in the native order
    lists,          \* the calendar identifiers of the reminder lists that exist
    nOps,           \* number of store operations made so far
    last,           \* the last store operation: its arguments and what it returned
    prev,           \* the store operation before it
    gone,           \* identifiers deleted with result True and not created again since
    batch,          \* the batch tool call in progress: its locals, and what it returned
    cancelReq,      \* per task: its caller was cancelled while its operation ran in the worker
    fetch,          \* per task: the reminder fetch of its operation: "none", "pending", "fired"
    stale,          \* the fetches given up by their callers and still pending, by grant number
    env,            \* the REQUEST_TIMEOUT setting of the process environment (NoEnv: not set)
    wait,           \* the bounded wait in progress: its kind, its deadline, the time elapsed
    work,           \* per task: the tool call it is making, and how far it got
    shadow          \* the database had the operations run one at a time, in grant order

hsVars == <<instance, lock, pc, att, nAttempts, slot, native, late, delivered,
            afterDenial, accessGranted,
            outcome, ret, retInst, calls, firstDone, inCohort,
            cohortHandshakes, cohortRes>>

runVars == <<limiter, borrowers, waitq, tpc, opResult, tres, runs, grantOrder, execOrder>>

srvVars == <<mainpc, exitCode, served>>

storeVars == <<ekstore, lists, nOps, last, prev, gone, batch>>

cfgVars == <<env, wait>>

workVars == <<work, shadow>>

concVars == <<cancelReq, fetch, stale, cfgVars, workVars>>

vars == <<hsVars, runVars, srvVars, storeVars, concVars>>

----------------------------------------------------------------------------
(* _request_access_sync, lines 78-79: every attempt has its own wait signal *)
(* and its own result slot (locals captured by its own handler closure).    *)
(* (Variant: one wait signal and result slot shared by all attempts.)        *)
SlotOfShared(k) == 1
SlotOf(k) == k

EmptySlot == [granted |-> FALSE, error |-> FALSE, set |-> FALSE]

(* lines 91-97: how a delivered (granted, error) pair ends the handshake.   *)
(* (Variant: the granted flag is not consulted.)                            *)
ClassifyIgnoringGranted(granted, error) ==
    IF error THEN EventKitError
    ELSE Ok
Classify(granted, error) ==
    IF error THEN EventKitError
    ELSE IF ~granted THEN AccessDeniedError
    ELSE Ok

InitHandshake ==
    /\ instance = 0
    /\ lock = NoThread
    /\ pc = [t \in Threads |-> "idle"]
    /\ att = [t \in Threads |-> 0]
    /\ nAttempts = 0
    /\ slot = [k \in Attempts |-> EmptySlot]
    /\ native = [k \in Attempts |-> "none"]
    /\ late = [k \in Attempts |-> FALSE]
    /\ delivered = [k \in Attempts |-> <<>>]
    /\ afterDenial = [t \in Threads |-> FALSE]
    /\ accessGranted = [k \in Attempts |-> FALSE]
    /\ outcome = [k \in Attempts |-> NoResult]
    /\ ret = [t \in Threads |-> NoResult]
    /\ retInst = [t \in Threads |-> 0]
    /\ calls = 0
    /\ firstDone = FALSE
    /\ inCohort = [t \in Threads |-> FALSE]
    /\ cohortHandshakes = 0
    /\ cohortRes = [t \in Threads |-> <<NoResult, 0>>]

(* A call of get_instance completes on thread t with result r (instance i). *)
Complete(t, r, i) ==
    /\ pc' = [pc EXCEPT ![t] = "idle"]
    /\ ret' = [ret EXCEPT ![t] = r]
    /\ retInst' = [retInst EXCEPT ![t] = i]
    /\ att' = [att EXCEPT ![t] = 0]
    /\ cohortRes' = IF inCohort[t] THEN [cohortRes EXCEPT ![t] = <<r, i>>] ELSE cohortRes
    /\ inCohort' = [inCohort EXCEPT ![t] = FALSE]
    /\ firstDone' = TRUE

(* A thread enters get_instance (line 100). *)
EnterCall(t) ==
    /\ pc[t] = "idle"
    /\ pc' = [pc EXCEPT ![t] = "outer"]
    /\ calls' = calls + 1
    /\ ret' = [ret EXCEPT ![t] = NoResult]
    /\ inCohort' = [inCohort EXCEPT ![t] = ~firstDone]
    /\ afterDenial' = [afterDenial EXCEPT ![t] = \E k \in Attempts : outcome[k] = AccessDeniedError]
    /\ UNCHANGED <<instance, lock, att, nAttempts, slot, native, late, delivered,
                   accessGranted, outcome, retInst, firstDone, cohortHandshakes, cohortRes>>

Enter(t) ==
    /\ calls < MaxCalls
    /\ EnterCall(t)
    /\ UNCHANGED <<runVars, srvVars>>
    /\ UNCHANGED <<storeVars, concVars>>

(* lines 105 and 107: cls._instance is None. (Variant: the committed        *)
(* instance is never seen.)                                                 *)
InstanceIsNoneAlways == TRUE
InstanceIsNone == instance = 0

(* line 105: the unlocked check. *)
OuterCheck(t) ==
    /\ pc[t] = "outer"
    /\ pc' = [pc EXCEPT ![t] = IF InstanceIsNone THEN "lock" ELSE "ret"]
    /\ UNCHANGED <<instance, lock, att, nAttempts, slot, native, late, accessGranted,
                   outcome, ret, retInst, calls, firstDone, inCohort,
                   cohortHandshakes, cohortRes>>
    /\ UNCHANGED <<delivered, afterDenial, runVars, srvVars>>
    /\ UNCHANGED <<storeVars, concVars>>

(* line 106: with cls._lock. *)
AcquireLock(t) ==
    /\ pc[t] = "lock"
    /\ lock = NoThread
    /\ lock' = t
    /\ pc' = [pc EXCEPT ![t] = "inner"]
    /\ UNCHANGED <<instance, att, nAttempts, slot, native, late, accessGranted,
                   outcome, ret, retInst, calls, firstDone, inCohort,
                   cohortHandshakes, cohortRes>>
    /\ UNCHANGED <<delivered, afterDenial, runVars, srvVars>>
    /\ UNCHANGED <<storeVars, concVars>>

(* line 107: the check under the lock.                                      *)
(* (Variants: no second check; a denial remembered and never re-requested.) *)
InnerFindsNoneAlways(t) == TRUE
InnerFindsNoneUnlessDenied(t) ==
    instance = 0 /\ ~(\E k \in Attempts : outcome[k] = AccessDeniedError)
InnerFindsNone(t) == InstanceIsNone

InnerCheck(t) ==
    /\ pc[t] = "inner"
    /\ pc' = [pc EXCEPT ![t] = IF InnerFindsNone(t) THEN "construct" ELSE "unlock"]
    /\ UNCHANGED <<instance, lock, att, nAttempts, slot, native, late, accessGranted,
                   outcome, ret, retInst, calls, firstDone, inCohort,
                   cohortHandshakes, cohortRes>>
    /\ UNCHANGED <<delivered, afterDenial, runVars, srvVars>>
    /\ UNCHANGED <<storeVars, concVars>>

(* line 108 cls(): __init__ lines 69-71 and _request_access_sync lines 78-86: *)
(* a new native store, a new wait signal and result slot, and the request.    *)
Construct(t) ==
    /\ pc[t] = "construct"
    /\ nAttempts < MaxAttempts
    /\ LET k == nAttempts + 1 IN
        /\ nAttempts' = k
        /\ att' = [att EXCEPT ![t] = k]
        /\ slot' = [slot EXCEPT ![SlotOf(k)] = EmptySlot]
        /\ native' = [native EXCEPT ![k] = "pending"]
        /\ accessGranted' = [accessGranted EXCEPT ![k] = FALSE]
    /\ cohortHandshakes' = IF inCohort[t] THEN cohortHandshakes + 1 ELSE cohortHandshakes
    /\ pc' = [pc EXCEPT ![t] = "wait"]
    /\ UNCHANGED <<instance, lock, late, outcome, ret, retInst, calls, firstDone,
                   inCohort, cohortRes>>
    /\ UNCHANGED <<delivered, afterDenial, runVars, srvVars>>
    /\ UNCHANGED <<storeVars, concVars>>

(* lines 81-84: the native layer invokes attempt k's completion handler, at   *)
(* most once, at any time after the request (also after the waiter gave up).  *)
Handler(k, granted, error) ==
    /\ native[k] = "pending"
    /\ native' = [native EXCEPT ![k] = "fired"]
    /\ slot' = [slot EXCEPT ![SlotOf(k)] =
                    [granted |-> granted, error |-> error, set |-> TRUE]]
    /\ late' = [late EXCEPT ![k] = ~(\E t \in Threads : pc[t] = "wait" /\ att[t] = k)]
    /\ UNCHANGED <<instance, lock, pc, att, nAttempts, accessGranted, outcome, ret,
                   retInst, calls, firstDone, inCohort, cohortHandshakes,
                   cohortRes>>
    /\ delivered' = [delivered EXCEPT ![k] = <<granted, error>>]
    /\ UNCHANGED <<afterDenial, runVars, srvVars>>
    /\ UNCHANGED <<storeVars, concVars>>

(* line 88: event.wait returns True once the signal is set. *)
WaitReturns(t) ==
    /\ pc[t] = "wait"
    /\ slot[SlotOf(att[t])].set
    /\ pc' = [pc EXCEPT ![t] = "eval"]
    /\ UNCHANGED <<instance, lock, att, nAttempts, slot, native, late, accessGranted,
                   outcome, ret, retInst, calls, firstDone, inCohort,
                   cohortHandshakes, cohortRes>>
    /\ UNCHANGED <<delivered, afterDenial, runVars, srvVars>>
    /\ UNCHANGED <<storeVars, concVars>>

(* lines 88-89: the deadline elapses with the signal unset; the exception    *)
(* leaves the with block of line 106, which releases the lock.               *)
(* (Variant: a wait with no timeout.)                                       *)
WaitUnbounded(t) == FALSE
WaitBounded(t) == TRUE

Timeout(t) ==
    /\ pc[t] = "wait"
    /\ WaitBounded(t)
    /\ ~slot[SlotOf(att[t])].set
    /\ outcome' = [outcome EXCEPT ![att[t]] = PermissionTimeoutError]
    /\ lock' = NoThread
    /\ Complete(t, PermissionTimeoutError, 0)
    /\ UNCHANGED <<instance, nAttempts, slot, native, late, accessGranted, calls,
                   cohortHandshakes>>
    /\ UNCHANGED <<delivered, afterDenial, runVars, srvVars>>
    /\ UNCHANGED <<storeVars, concVars>>

(* lines 91-97: read the result slot. *)
Evaluate(t) ==
    /\ pc[t] = "eval"
    /\ LET k == att[t]
           r == Classify(slot[SlotOf(k)].granted, slot[SlotOf(k)].error) IN
        /\ outcome' = [outcome EXCEPT ![k] = r]
        /\ IF r = Ok
           THEN /\ accessGranted' = [accessGranted EXCEPT ![k] = TRUE]
                /\ pc' = [pc EXCEPT ![t] = "commit"]
                /\ UNCHANGED <<lock, ret, retInst, att, cohortRes, inCohort, firstDone>>
           ELSE /\ lock' = NoThread
                /\ Complete(t, r, 0)
                /\ UNCHANGED accessGranted
    /\ UNCHANGED <<instance, nAttempts, slot, native, late, calls,
                   cohortHandshakes>>
    /\ UNCHANGED <<delivered, afterDenial, runVars, srvVars>>
    /\ UNCHANGED <<storeVars, concVars>>

(* line 108: cls._instance = <the constructed object>. *)
Commit(t) ==
    /\ pc[t] = "commit"
    /\ instance' = att[t]
    /\ pc' = [pc EXCEPT ![t] = "unlock"]
    /\ UNCHANGED <<lock, att, nAttempts, slot, native, late, accessGranted, outcome,
                   ret, retInst, calls, firstDone, inCohort,
                   cohortHandshakes, cohortRes>>
    /\ UNCHANGED <<delivered, afterDenial, runVars, srvVars>>
    /\ UNCHANGED <<storeVars, concVars>>

(* leaving the with block of line 106 normally. *)
Unlock(t) ==
    /\ pc[t] = "unlock"
    /\ lock' = NoThread
    /\ pc' = [pc EXCEPT ![t] = "ret"]
    /\ UNCHANGED <<instance, att, nAttempts, slot, native, late, accessGranted,
                   outcome, ret, retInst, calls, firstDone, inCohort,
                   cohortHandshakes, cohortRes>>
    /\ UNCHANGED <<delivered, afterDenial, runVars, srvVars>>
    /\ UNCHANGED <<storeVars, concVars>>

(* line 109: return cls._instance. *)
Return(t) ==
    /\ pc[t] = "ret"
    /\ Complete(t, Ok, instance)
    /\ UNCHANGED <<instance, lock, nAttempts, slot, native, late, accessGranted,
                   outcome, calls, cohortHandshakes>>
    /\ UNCHANGED <<delivered, afterDenial, runVars, srvVars>>
    /\ UNCHANGED <<storeVars, concVars>>

GetInstanceStep(t) ==
    \/ OuterCheck(t)
    \/ AcquireLock(t)
    \/ InnerCheck(t)
    \/ Construct(t)
    \/ WaitReturns(t)
    \/ Timeout(t)
    \/ Evaluate(t)
    \/ Commit(t)
    \/ Unlock(t)
    \/ Return(t)

NativeStep ==
    \E k \in Attempts, granted \in BOOLEAN, error \in BOOLEAN : Handler(k, granted, error)

----------------------------------------------------------------------------
(* run_eventkit (store.py lines 111-142) on the event loop's tasks.         *)

(* line 115: anyio.CapacityLimiter(1). (Variant: a limiter of two tokens.)  *)
TotalTokensTwo == 1 + 1
TotalTokens == 1

(* line 140/142: the operation's return value or exception reaches the caller. *)
Value == "value"
Raised == "raise"
Propagate(r) == r

(* line 136: leaving the async with block releases the token, however the   *)
(* block was left.                                                          *)
(* (Variant: a release skipped when the block is left by an exception.)     *)
ExitReleasesOnReturnOnly(r) == r = Value
ExitReleases(r) == TRUE

(* The limiter wakes the longest-waiting task. (Variant: the newest.)       *)
NextWaiterNewest(q) == Len(q)
NextWaiter(q) == 1

RemoveAt(q, i) == [j \in 1..(Len(q) - 1) |-> IF j < i THEN q[j] ELSE q[j + 1]]

InitRun ==
    /\ limiter = FALSE
    /\ borrowers = {}
    /\ waitq = <<>>
    /\ tpc = [k \in Tasks |-> "idle"]
    /\ opResult = [k \in Tasks |-> NoResult]
    /\ tres = [k \in Tasks |-> NoResult]
    /\ runs = 0
    /\ grantOrder = <<>>
    /\ execOrder = <<>>

NoEnv == 0 - 1
NoWait == [state |-> "none"]
NoWork == [tool |-> "none"]

InitConc ==
    /\ cancelReq = [k \in Tasks |-> FALSE]
    /\ fetch = [k \in Tasks |-> "none"]
    /\ stale = {}
    /\ env = NoEnv
    /\ wait = NoWait
    /\ work = [k \in Tasks |-> NoWork]
    /\ shadow = <<>>

(* The event loop's thread is not inside a synchronous call: a handler's    *)
(* get_instance runs on it, a wrapped operation runs in a worker (line 142). *)
(* (Variant: the wrapped operation is called on the event loop's thread.)    *)
LoopThread == 1
LoopFreeInline ==
    /\ pc[LoopThread] = "idle"
    /\ \A k \in Tasks : tpc[k] \notin {"getstore", "running"}
LoopFree == pc[LoopThread] = "idle" /\ \A k \in Tasks : tpc[k] # "getstore"

(* lines 134-136: _get_limiter, then async with limiter: the token is taken *)
(* at once if it is free and nobody queues, else the task queues.           *)
EnterLimiter(k) ==
    /\ limiter' = TRUE
    /\ opResult' = [opResult EXCEPT ![k] = NoResult]
    /\ tres' = [tres EXCEPT ![k] = NoResult]
    /\ IF waitq = <<>> /\ Cardinality(borrowers) < TotalTokens
       THEN /\ borrowers' = borrowers \cup {k}
            /\ grantOrder' = Append(grantOrder, k)
            /\ tpc' = [tpc EXCEPT ![k] = "holding"]
            /\ UNCHANGED waitq
       ELSE /\ waitq' = Append(waitq, k)
            /\ tpc' = [tpc EXCEPT ![k] = "queued"]
            /\ UNCHANGED <<borrowers, grantOrder>>

Submit(k) ==
    /\ tpc[k] = "idle"
    /\ LoopFree
    /\ runs < MaxRuns
    /\ runs' = runs + 1
    /\ EnterLimiter(k)
    /\ UNCHANGED <<execOrder, hsVars, srvVars>>
    /\ UNCHANGED <<storeVars, concVars>>

(* line 142: anyio.to_thread.run_sync hands wrapped to a worker thread. *)
Dispatch(k) ==
    /\ tpc[k] = "holding"
    /\ LoopFree
    /\ tpc' = [tpc EXCEPT ![k] = "running"]
    /\ execOrder' = Append(execOrder, k)
    /\ UNCHANGED <<limiter, borrowers, waitq, opResult, tres, runs, grantOrder, hsVars, srvVars>>
    /\ UNCHANGED <<storeVars, concVars>>

(* lines 138-140: in the worker, the wrapped operation returns or raises. *)
OpEnds(k, r) ==
    /\ tpc[k] = "running"
    /\ tpc' = [tpc EXCEPT ![k] = "finished"]
    /\ opResult' = [opResult EXCEPT ![k] = r]
    /\ UNCHANGED <<limiter, borrowers, waitq, tres, runs, grantOrder, execOrder, hsVars, srvVars>>
    /\ UNCHANGED <<storeVars, concVars>>

(* lines 136-142: the task resumes, leaves the async with block and returns *)
(* or re-raises; a released token goes to the next waiter.                  *)
Exit(k) ==
    /\ tpc[k] = "finished"
    /\ LoopFree
    /\ tres' = [tres EXCEPT ![k] = Propagate(opResult[k])]
    /\ LET held == IF ExitReleases(opResult[k]) THEN borrowers \ {k} ELSE borrowers IN
       IF waitq # <<>> /\ Cardinality(held) < TotalTokens
       THEN LET i == NextWaiter(waitq)
                w == waitq[i] IN
            /\ borrowers' = held \cup {w}
            /\ waitq' = RemoveAt(waitq, i)
            /\ grantOrder' = Append(grantOrder, w)
            /\ tpc' = [tpc EXCEPT ![k] = "idle", ![w] = "holding"]
       ELSE /\ borrowers' = held
            /\ tpc' = [tpc EXCEPT ![k] = "idle"]
            /\ UNCHANGED <<waitq, grantOrder>>
    /\ UNCHANGED <<limiter, opResult, runs, execOrder, hsVars, srvVars>>
    /\ UNCHANGED <<storeVars, concVars>>

RunStep(k) ==
    \/ Submit(k)
    \/ Dispatch(k)
    \/ \E r \in {Value, Raised} : OpEnds(k, r)
    \/ Exit(k)


----------------------------------------------------------------------------
(* Cancellation of a task that awaits run_eventkit (store.py lines 134-142). *)
Cancelled == "cancelled"

(* line 142: anyio.to_thread.run_sync is called without abandon_on_cancel,  *)
(* so the await is shielded while the worker runs the operation.            *)
(* (Variant: abandon_on_cancel=True.)                                       *)
AbandonOnCancelYes == TRUE
AbandonOnCancel == FALSE

(* line 136: the task leaves the async with block: its token goes back to   *)
(* the limiter and on to the next waiter; the task goes on at position at.  *)
Release(k, at) ==
    LET held == borrowers \ {k} IN
    IF waitq # <<>> /\ Cardinality(held) < TotalTokens
    THEN LET i == NextWaiter(waitq)
             w == waitq[i] IN
         /\ borrowers' = held \cup {w}
         /\ waitq' = RemoveAt(waitq, i)
         /\ grantOrder' = Append(grantOrder, w)
         /\ tpc' = [tpc EXCEPT ![k] = at, ![w] = "holding"]
    ELSE /\ borrowers' = held
         /\ tpc' = [tpc EXCEPT ![k] = at]
         /\ UNCHANGED <<waitq, grantOrder>>

PositionIn(q, k) == CHOOSE i \in 1..Len(q) : q[i] = k

(* line 136: cancelled while it waits for the token, the task leaves the    *)
(* queue with CancelledError.                                               *)
CancelQueued(k) ==
    /\ tpc[k] = "queued"
    /\ LoopFree
    /\ waitq' = RemoveAt(waitq, PositionIn(waitq, k))
    /\ tpc' = [tpc EXCEPT ![k] = "idle"]
    /\ tres' = [tres EXCEPT ![k] = Cancelled]
    /\ UNCHANGED <<limiter, borrowers, opResult, runs, grantOrder, execOrder>>
    /\ UNCHANGED <<hsVars, srvVars, storeVars, concVars>>

(* lines 136-142: cancelled with the token in hand and nothing handed to a  *)
(* worker yet, the task leaves the block at run_sync's first checkpoint.    *)
CancelHolding(k) ==
    /\ tpc[k] = "holding"
    /\ LoopFree
    /\ Release(k, "idle")
    /\ tres' = [tres EXCEPT ![k] = Cancelled]
    /\ UNCHANGED <<limiter, opResult, runs, execOrder>>
    /\ UNCHANGED <<hsVars, srvVars, storeVars, concVars>>

(* line 142: cancelled while the worker runs its operation, the task stays  *)
(* in the shielded await; the cancellation is delivered when it resumes.    *)
CancelRunning(k) ==
    /\ tpc[k] \in {"running", "finished"}
    /\ ~cancelReq[k]
    /\ LoopFree
    /\ cancelReq' = [cancelReq EXCEPT ![k] = TRUE]
    /\ IF AbandonOnCancel
       THEN /\ Release(k, tpc[k])
            /\ tres' = [tres EXCEPT ![k] = Cancelled]
       ELSE UNCHANGED <<borrowers, waitq, grantOrder, tpc, tres>>
    /\ UNCHANGED <<limiter, opResult, runs, execOrder>>
    /\ UNCHANGED <<hsVars, srvVars, storeVars, fetch, stale, cfgVars, workVars>>

(* lines 136-142: the operation has ended; the cancelled task resumes,      *)
(* leaves the async with block and raises CancelledError.                   *)
ExitCancelled(k) ==
    /\ tpc[k] = "finished"
    /\ cancelReq[k]
    /\ LoopFree
    /\ Release(k, "idle")
    /\ tres' = [tres EXCEPT ![k] = Cancelled]
    /\ cancelReq' = [cancelReq EXCEPT ![k] = FALSE]
    /\ UNCHANGED <<limiter, opResult, runs, execOrder>>
    /\ UNCHANGED <<hsVars, srvVars, storeVars, fetch, stale, cfgVars, workVars>>

CancelStep(k) ==
    \/ CancelQueued(k)
    \/ CancelHolding(k)
    \/ CancelRunning(k)
    \/ ExitCancelled(k)

----------------------------------------------------------------------------
(* get_reminders_sync in the worker (store.py lines 322-337): the fetch is  *)
(* issued with a completion handler, and the worker waits for the handler's *)
(* signal for at most DEFAULT_TIMEOUT. The native layer calls the handler   *)
(* when the fetch completes, whatever the worker does by then.              *)

(* line 332: fetchRemindersMatchingPredicate_completion_(predicate, handler). *)
FetchIssue(k) ==
    /\ tpc[k] = "running"
    /\ fetch[k] = "none"
    /\ fetch' = [fetch EXCEPT ![k] = "pending"]
    /\ UNCHANGED <<cancelReq, stale, hsVars, runVars, srvVars, storeVars, cfgVars, workVars>>

(* lines 326-330: the handler converts the fetched EKReminders to dicts and *)
(* sets the event, while the worker waits.                                  *)
FetchHandler(k) ==
    /\ fetch[k] = "pending"
    /\ fetch' = [fetch EXCEPT ![k] = "fired"]
    /\ UNCHANGED <<cancelReq, stale, hsVars, runVars, srvVars, storeVars, cfgVars, workVars>>

(* lines 334-337: event.wait returned True; return reminder_list. *)
FetchReturns(k) ==
    /\ tpc[k] = "running"
    /\ fetch[k] = "fired"
    /\ fetch' = [fetch EXCEPT ![k] = "none"]
    /\ tpc' = [tpc EXCEPT ![k] = "finished"]
    /\ opResult' = [opResult EXCEPT ![k] = Value]
    /\ UNCHANGED <<limiter, borrowers, waitq, tres, runs, grantOrder, execOrder>>
    /\ UNCHANGED <<cancelReq, stale, hsVars, srvVars, storeVars, cfgVars, workVars>>

(* lines 334-335: the deadline elapsed first; TimeoutError is raised, and   *)
(* the fetch stays with the native layer, known by the number of the grant  *)
(* under which it was issued.                                               *)
FetchTimeout(k) ==
    /\ tpc[k] = "running"
    /\ fetch[k] = "pending"
    /\ fetch' = [fetch EXCEPT ![k] = "none"]
    /\ stale' = stale \cup {Len(grantOrder)}
    /\ tpc' = [tpc EXCEPT ![k] = "finished"]
    /\ opResult' = [opResult EXCEPT ![k] = Raised]
    /\ UNCHANGED <<limiter, borrowers, waitq, tres, runs, grantOrder, execOrder>>
    /\ UNCHANGED <<cancelReq, hsVars, srvVars, storeVars, cfgVars, workVars>>

(* lines 326-330: the handler of a fetch that was given up runs all the     *)
(* same when the fetch completes, and converts the EKReminders it is given. *)
StaleHandler(g) ==
    /\ g \in stale
    /\ stale' = stale \ {g}
    /\ UNCHANGED <<cancelReq, fetch, hsVars, runVars, srvVars, storeVars, cfgVars, workVars>>

(* lines 301-303: the list does not exist; NotFoundError before any fetch. *)
FetchNoList(k) ==
    /\ fetch[k] = "none"
    /\ OpEnds(k, Raised)

----------------------------------------------------------------------------
(* The server process (server.py, main): the handshake at startup, then the *)
(* tool handlers (tools/*.py), which run on the event loop's thread.        *)
MainThread == LoopThread
NoExit == 0 - 1

InitServer ==
    /\ mainpc = "start"
    /\ exitCode = NoExit
    /\ served = 0

(* lines 123-129: parse_args ends the process itself: status 2 for a        *)
(* rejected command line, status 0 after printing the help.                 *)
MainArgsExit(code) ==
    /\ mainpc = "start"
    /\ mainpc' = "exited"
    /\ exitCode' = code
    /\ UNCHANGED <<served, hsVars, runVars>>
    /\ UNCHANGED <<storeVars, concVars>>

(* lines 139-141: main calls ReminderStore.get_instance(). *)
MainStart ==
    /\ mainpc = "start"
    /\ mainpc' = "handshake"
    /\ EnterCall(MainThread)
    /\ UNCHANGED <<exitCode, served, runVars>>
    /\ UNCHANGED <<storeVars, concVars>>

(* lines 142, 151-154: get_instance returned; main reaches mcp.run(). *)
MainGranted ==
    /\ mainpc = "handshake"
    /\ pc[MainThread] = "idle"
    /\ ret[MainThread] = Ok
    /\ mainpc' = "serving"
    /\ UNCHANGED <<exitCode, served, hsVars, runVars>>
    /\ UNCHANGED <<storeVars, concVars>>

(* lines 143-149: get_instance raised; except Exception ends in sys.exit(1). *)
(* (Variant: the failure is logged and main carries on.)                     *)
AfterFailureServe == "serving"
AfterFailure == "exited"

MainFailed ==
    /\ mainpc = "handshake"
    /\ pc[MainThread] = "idle"
    /\ ret[MainThread] \in Failures
    /\ mainpc' = AfterFailure
    /\ exitCode' = IF AfterFailure = "exited" THEN 1 ELSE exitCode
    /\ UNCHANGED <<served, hsVars, runVars>>
    /\ UNCHANGED <<storeVars, concVars>>

(* A tool handler starts (e.g. tools/reminders.py line 65): it calls        *)
(* get_instance synchronously on the event loop's thread.                   *)
HandlerCall(k) ==
    /\ tpc[k] = "idle"
    /\ LoopFree
    /\ runs < MaxRuns
    /\ EnterCall(MainThread)
    /\ tpc' = [tpc EXCEPT ![k] = "getstore"]
    /\ runs' = runs + 1
    /\ served' = served + 1
    /\ UNCHANGED <<limiter, borrowers, waitq, opResult, tres, grantOrder, execOrder,
                   mainpc, exitCode>>
    /\ UNCHANGED <<storeVars, concVars>>

(* server.py lines 151-154: the server accepts tool calls once main has     *)
(* reached mcp.run().                                                       *)
ToolCall(k) ==
    /\ mainpc = "serving"
    /\ HandlerCall(k)

(* e.g. tools/reminders.py line 66: with the store in hand the handler      *)
(* awaits run_eventkit; had get_instance raised, the tool call raises.      *)
ToolGotStore(k) ==
    /\ tpc[k] = "getstore"
    /\ pc[MainThread] = "idle"
    /\ IF ret[MainThread] = Ok
       THEN EnterLimiter(k)
       ELSE /\ tpc' = [tpc EXCEPT ![k] = "idle"]
            /\ tres' = [tres EXCEPT ![k] = ret[MainThread]]
            /\ UNCHANGED <<limiter, borrowers, waitq, opResult, grantOrder>>
    /\ UNCHANGED <<runs, execOrder, hsVars, srvVars>>
    /\ UNCHANGED <<storeVars, concVars>>

----------------------------------------------------------------------------
(* The native database behind self._store and the values of converters.py.  *)
(* Texts are sequences of character codes (character 2 is the capital of    *)
(* character 1); NoText is None / nil. A datetime counts half seconds,      *)
(* date components count whole seconds; NoDate is None / nil.               *)
MaxItems == 2

IdSpace == {"a", "b", "c", "d"}
IdRank == [a |-> 1, b |-> 2, c |-> 3, d |-> 4]
ListIds == {"L1", "L2"}
NoList == "None"
NoText == <<0>>
NoDate == 0 - 1
NotFoundError == "NotFoundError"
NoWritableSourceError == "NoWritableSourceError"

DefaultFields ==
    [title |-> <<1>>, notes |-> NoText, url |-> NoText,
     due |-> NoDate, start |-> NoDate, priority |-> 0]

(* A calendar item: an EKReminder or an EKEvent, with its local identifier  *)
(* (calendarItemIdentifier, unique in the database) and its external        *)
(* identifier (calendarItemExternalIdentifier, which items may share).      *)
PlainItem(kind, loc, ext) ==
    [kind |-> kind, loc |-> loc, ext |-> ext, list |-> "L1",
     completed |-> FALSE, f |-> DefaultFields]

PlainItems == {PlainItem(kind, loc, ext) :
                  kind \in {"reminder", "event"}, loc \in IdSpace, ext \in IdSpace}

UniqueLocal(store) ==
    \A i, j \in 1..Len(store) : store[i].loc = store[j].loc => i = j

PlainStores ==
    {st \in UNION {[1..n -> PlainItems] : n \in 0..MaxItems} : UniqueLocal(st)}

(* converters.py lines 39-48 and 51-81: a datetime to date components (the  *)
(* sub-second part is not copied) and back.                                 *)
datetime_to_components(dt) == dt \div 2
components_to_datetime(c) == IF c = NoDate THEN NoDate ELSE 2 * c

(* models.py lines 9-22, converters.py lines 160-164: Priority(value), NONE *)
(* for a value that is no member.                                           *)
PriorityValues == {0, 1, 5, 9}
ToPriority(v) == IF v \in PriorityValues THEN v ELSE 0

(* converters.py lines 143-180. *)
ek_reminder_to_dict(r) ==
    [id |-> r.ext,
     title |-> IF r.f.title \in {NoText, <<>>} THEN <<>> ELSE r.f.title,
     list_id |-> r.list,
     notes |-> IF r.f.notes \in {NoText, <<>>} THEN NoText ELSE r.f.notes,
     url |-> r.f.url,
     is_completed |-> r.completed,
     due_date |-> components_to_datetime(r.f.due),
     start_date |-> components_to_datetime(r.f.start),
     priority |-> ToPriority(r.f.priority)]

(* EKEventStore calendarItemWithIdentifier: the position of the item with   *)
(* that local identifier, 0 for nil.                                        *)
calendarItemWithIdentifier(store, id) ==
    IF \E i \in 1..Len(store) : store[i].loc = id
    THEN CHOOSE i \in 1..Len(store) : store[i].loc = id
    ELSE 0

(* EKEventStore calendarItemsWithExternalIdentifier: the positions of the   *)
(* items with that external identifier, in the native order.                *)
calendarItemsWithExternalIdentifier(store, id) ==
    SelectSeq([i \in 1..Len(store) |-> i], LAMBDA i : store[i].ext = id)

IsEKReminder(store, i) == store[i].kind = "reminder"

(* store.py lines 354-365 and 597-608, the loop over items: the first item  *)
(* that is an EKReminder, 0 when the loop ends without one.                 *)
(* (Variant: the first item, whatever its class.)                           *)
FirstOfAnyClass(store, items) ==
    IF Len(items) > 0 THEN items[1] ELSE 0
FirstReminder(store, items) ==
    LET hits == {n \in 1..Len(items) : IsEKReminder(store, items[n])} IN
    IF hits = {} THEN 0
    ELSE items[CHOOSE n \in hits : \A m \in hits : n <= m]

(* store.py lines 584-608, _get_reminder_by_id: the position of the         *)
(* EKReminder it returns, 0 when it raises NotFoundError.                   *)
GetReminderById(store, id) ==
    LET reminder == calendarItemWithIdentifier(store, id) IN
    IF reminder # 0 /\ IsEKReminder(store, reminder)
    THEN reminder
    ELSE FirstReminder(store, calendarItemsWithExternalIdentifier(store, id))

(* store.py lines 339-365, get_reminder_sync: the position of the           *)
(* EKReminder it converts, 0 when it raises NotFoundError.                  *)
GetReminderSyncItem(store, id) ==
    LET reminder == calendarItemWithIdentifier(store, id) IN
    IF reminder # 0 /\ IsEKReminder(store, reminder)
    THEN reminder
    ELSE LET items == calendarItemsWithExternalIdentifier(store, id) IN
         IF Len(items) > 0 THEN FirstReminder(store, items) ELSE 0

NoOp == [op |-> "none"]
NoBatch == [status |-> "none"]

InitStore ==
    /\ ekstore = <<>>
    /\ lists = {"L1"}
    /\ nOps = 0
    /\ last = NoOp
    /\ prev = NoOp
    /\ gone = {}
    /\ batch = NoBatch

(* The two resolvers applied to one identifier on the same database. *)
Resolve(id) ==
    /\ last' = [op |-> "resolve", id |-> id,
                get |-> GetReminderSyncItem(ekstore, id),
                byId |-> GetReminderById(ekstore, id)]
    /\ UNCHANGED <<ekstore, lists, nOps, prev, gone, batch>>
    /\ UNCHANGED <<concVars, hsVars, runVars, srvVars>>

----------------------------------------------------------------------------
(* The store operations (store.py), each run as a whole in the worker.      *)
MaxOps == 2
MaxProvided == 1

NoPriority == 0 - 1
NoDict == [id |-> "None"]

(* What the tools pass: a text or None, a datetime or None, a priority.     *)
TextIn == {<<>>, <<2>>}
DateIn == {2, 3}
FieldNames == {"title", "notes", "url", "due_date", "start_date", "priority"}

NoArgs ==
    [title |-> NoText, notes |-> NoText, url |-> NoText,
     due_date |-> NoDate, start_date |-> NoDate, priority |-> NoPriority]

(* The values a call may provide for each argument. *)
InVals(n) ==
    CASE n \in {"title", "notes", "url"} -> TextIn
      [] n \in {"due_date", "start_date"} -> DateIn
      [] n = "priority" -> {0, 1}

(* The argument records that differ from base in at most k of the names. *)
RECURSIVE ArgsUpTo(_, _, _)
ArgsUpTo(base, names, k) ==
    IF k = 0 THEN {base}
    ELSE LET less == ArgsUpTo(base, names, k - 1) IN
         less \cup UNION {UNION {{[a EXCEPT ![n] = v] : v \in InVals(n)} : n \in names} :
                             a \in less}

(* tools/reminders.py lines 115-160: every argument of update_reminder is   *)
(* optional; priority is passed as int(priority).                           *)
UpdateArgs == ArgsUpTo(NoArgs, FieldNames, MaxProvided)

(* tools/reminders.py lines 70-112: create_reminder needs a title, and its  *)
(* priority defaults to Priority.NONE.                                      *)
CreateDefaults == [NoArgs EXCEPT !.priority = 0]
CreateArgs ==
    UNION {ArgsUpTo([CreateDefaults EXCEPT !.title = t], FieldNames \ {"title"}, MaxProvided) :
              t \in TextIn}

(* Python truthiness: of a str or None, of a datetime or None, of an int,   *)
(* of a tuple.                                                              *)
TruthyText(t) == t # NoText /\ t # <<>>
TruthyDate(d) == d # NoDate
TruthyInt(n) == n # 0
TruthyTuple(t) == Len(t) > 0

(* NSURL.URLWithString_ (store.py lines 415, 476): nil for the empty string. *)
URLWithString(t) == IF t = <<>> THEN NoText ELSE t

(* store.py lines 429-430 (and 209-210, 243-244, 271-272, 494-495, 521-522, *)
(* 544-545, 574-575): the selector takes an NSError** out-parameter, for    *)
(* which the bridge returns the pair (result, error) to Python.             *)
CommitError(ok) == <<ok, IF ok THEN "nil" ELSE "NSError">>

(* store.py lines 432-433 (and the like): if not success: raise.            *)
SaveRaises(success) == ~TruthyTuple(success)

(* EKEventStore defaultCalendarForNewReminders and calendarWithIdentifier.  *)
DefaultCalendar == IF "L1" \in lists THEN "L1" ELSE NoList
calendarWithIdentifier(id) == IF id \in lists THEN id ELSE NoList

(* The identifiers the native layer may give a new reminder: identifiers   *)
(* that no item has in either role, the external one equal to the local one *)
(* or not. Identifiers are opaque, so the first unused ones stand for any.  *)
UsedIds(store) == {store[i].loc : i \in 1..Len(store)} \cup {store[i].ext : i \in 1..Len(store)}
FirstOf(S) == CHOOSE x \in S : \A y \in S : IdRank[x] <= IdRank[y]
FreshIds(store) ==
    LET free == IdSpace \ UsedIds(store) IN
    IF free = {} THEN {}
    ELSE LET l == FirstOf(free) IN
         {<<l, l>>} \cup (IF free = {l} THEN {} ELSE {<<l, FirstOf(free \ {l})>>})

(* A finished operation is recorded with the database it found; item is    *)
(* the position of the reminder it resolved, or the local identifier of the *)
(* reminder it created.                                                     *)
Record(op, id, list, args, out, value, saved, item) ==
    /\ last' = [op |-> op, id |-> id, list |-> list, args |-> args, out |-> out,
                value |-> value, native |-> saved, item |-> item,
                pre |-> ekstore, preLists |-> lists]
    /\ prev' = last
    /\ nOps' = nOps + 1
    /\ gone' = IF op = "delete" /\ out = Ok THEN gone \cup {id}
               ELSE IF op = "create" /\ saved = "ok" THEN gone \ {value.id, item}
               ELSE gone

NativeName(ok) == IF ok THEN "ok" ELSE "failed"

(* store.py lines 339-365 behind tools/reminders.py lines 53-67. *)
get_reminder_sync(id) ==
    /\ LET i == GetReminderSyncItem(ekstore, id) IN
       IF i = 0
       THEN Record("get", id, NoList, NoArgs, NotFoundError, NoDict, "none", 0)
       ELSE Record("get", id, NoList, NoArgs, Ok, ek_reminder_to_dict(ekstore[i]), "none", i)
    /\ UNCHANGED <<ekstore, lists>>

(* store.py lines 397-427: the new EKReminder as create_reminder_sync       *)
(* fills it in.                                                             *)
NewReminder(ids, calendar, a) ==
    [kind |-> "reminder", loc |-> ids[1], ext |-> ids[2], list |-> calendar,
     completed |-> FALSE,
     f |-> [title |-> a.title,
            notes |-> IF TruthyText(a.notes) THEN a.notes ELSE NoText,
            url |-> IF TruthyText(a.url) THEN URLWithString(a.url) ELSE NoText,
            due |-> IF TruthyDate(a.due_date)
                    THEN datetime_to_components(a.due_date) ELSE NoDate,
            start |-> IF TruthyDate(a.start_date)
                      THEN datetime_to_components(a.start_date) ELSE NoDate,
            priority |-> IF TruthyInt(a.priority) THEN a.priority ELSE 0]]

(* store.py lines 367-435 behind tools/reminders.py lines 70-112. *)
create_reminder_sync(list_id, a, ok, ids) ==
    /\ LET calendar == IF list_id # NoList THEN calendarWithIdentifier(list_id)
                       ELSE DefaultCalendar IN
       IF calendar = NoList
       THEN /\ Record("create", "None", list_id, a,
                      IF list_id # NoList THEN NotFoundError ELSE NoWritableSourceError,
                      NoDict, "none", "None")
            /\ UNCHANGED ekstore
       ELSE LET reminder == NewReminder(ids, calendar, a)
                success == CommitError(ok) IN
            /\ ekstore' = IF ok THEN Append(ekstore, reminder) ELSE ekstore
            /\ IF SaveRaises(success)
               THEN Record("create", "None", list_id, a, EventKitError, NoDict,
                           NativeName(ok), ids[1])
               ELSE Record("create", "None", list_id, a, Ok,
                           ek_reminder_to_dict(reminder), NativeName(ok), ids[1])
    /\ UNCHANGED lists

(* store.py lines 471-482: only the arguments that are not None are set. *)
Updated(r, a) ==
    [r EXCEPT !.f =
        [title |-> IF a.title # NoText THEN a.title ELSE r.f.title,
         notes |-> IF a.notes # NoText THEN a.notes ELSE r.f.notes,
         url |-> IF a.url # NoText THEN URLWithString(a.url) ELSE r.f.url,
         due |-> IF a.due_date # NoDate
                 THEN datetime_to_components(a.due_date) ELSE r.f.due,
         start |-> IF a.start_date # NoDate
                   THEN datetime_to_components(a.start_date) ELSE r.f.start,
         priority |-> IF a.priority # NoPriority THEN a.priority ELSE r.f.priority]]

(* The shape shared by update, complete and move: resolve, change the       *)
(* EKReminder in memory, save, convert the EKReminder in memory.            *)
SaveChanged(op, id, list, a, i, changed, ok) ==
    LET success == CommitError(ok) IN
    /\ ekstore' = IF ok THEN [ekstore EXCEPT ![i] = changed] ELSE ekstore
    /\ IF SaveRaises(success)
       THEN Record(op, id, list, a, EventKitError, NoDict, NativeName(ok), i)
       ELSE Record(op, id, list, a, Ok, ek_reminder_to_dict(changed), NativeName(ok), i)

(* store.py lines 437-500 behind tools/reminders.py lines 115-160, called   *)
(* without location arguments.                                              *)
update_reminder_sync(id, a, ok) ==
    /\ LET i == GetReminderById(ekstore, id) IN
       IF i = 0
       THEN /\ Record("update", id, NoList, a, NotFoundError, NoDict, "none", 0)
            /\ UNCHANGED ekstore
       ELSE SaveChanged("update", id, NoList, a, i, Updated(ekstore[i], a), ok)
    /\ UNCHANGED lists

(* store.py lines 502-527 behind tools/reminders.py lines 163-183. *)
complete_reminder_sync(id, completed, ok) ==
    /\ LET i == GetReminderById(ekstore, id)
           a == [NoArgs EXCEPT !.priority = IF completed THEN 1 ELSE 0] IN
       IF i = 0
       THEN /\ Record("complete", id, NoList, a, NotFoundError, NoDict, "none", 0)
            /\ UNCHANGED ekstore
       ELSE SaveChanged("complete", id, NoList, a, i,
                        [ekstore[i] EXCEPT !.completed = completed], ok)
    /\ UNCHANGED lists

(* store.py lines 552-580 behind tools/reminders.py lines 202-219. *)
move_reminder_sync(id, list_id, ok) ==
    /\ LET i == GetReminderById(ekstore, id) IN
       IF i = 0 \/ calendarWithIdentifier(list_id) = NoList
       THEN /\ Record("move", id, list_id, NoArgs, NotFoundError, NoDict, "none", i)
            /\ UNCHANGED ekstore
       ELSE SaveChanged("move", id, list_id, NoArgs, i,
                        [ekstore[i] EXCEPT !.list = list_id], ok)
    /\ UNCHANGED lists

Without(store, removed) ==
    SelectSeq(store, LAMBDA r : r.loc \notin removed)

(* store.py lines 529-550 behind tools/reminders.py lines 186-199. *)
delete_reminder_sync(id, ok) ==
    /\ LET i == GetReminderById(ekstore, id)
           success == CommitError(ok) IN
       IF i = 0
       THEN /\ Record("delete", id, NoList, NoArgs, NotFoundError, NoDict, "none", 0)
            /\ UNCHANGED ekstore
       ELSE /\ ekstore' = IF ok THEN Without(ekstore, {ekstore[i].loc}) ELSE ekstore
            /\ IF SaveRaises(success)
               THEN Record("delete", id, NoList, NoArgs, EventKitError, NoDict,
                           NativeName(ok), i)
               ELSE Record("delete", id, NoList, NoArgs, Ok, [id |-> "True"],
                           NativeName(ok), i)
    /\ UNCHANGED lists

(* store.py lines 184-215, create_list_sync with a writable source: the     *)
(* native layer gives the new calendar an identifier no list has.           *)
create_list_sync(newId, ok) ==
    /\ newId \notin lists
    /\ LET success == CommitError(ok) IN
       /\ lists' = IF ok THEN lists \cup {newId} ELSE lists
       /\ IF SaveRaises(success)
          THEN Record("create_list", "None", newId, NoArgs, EventKitError, NoDict,
                      NativeName(ok), 0)
          ELSE Record("create_list", "None", newId, NoArgs, Ok, [id |-> newId],
                      NativeName(ok), 0)
    /\ UNCHANGED ekstore

(* store.py lines 254-277, delete_list_sync: removing a calendar removes    *)
(* the reminders in it.                                                     *)
delete_list_sync(list_id, ok) ==
    /\ IF calendarWithIdentifier(list_id) = NoList
       THEN /\ Record("delete_list", "None", list_id, NoArgs, NotFoundError, NoDict,
                      "none", 0)
            /\ UNCHANGED <<ekstore, lists>>
       ELSE LET success == CommitError(ok) IN
            /\ lists' = IF ok THEN lists \ {list_id} ELSE lists
            /\ ekstore' = IF ok THEN SelectSeq(ekstore, LAMBDA r : r.list # list_id)
                          ELSE ekstore
            /\ IF SaveRaises(success)
               THEN Record("delete_list", "None", list_id, NoArgs, EventKitError, NoDict,
                           NativeName(ok), 0)
               ELSE Record("delete_list", "None", list_id, NoArgs, Ok, [id |-> "True"],
                           NativeName(ok), 0)

(* The tool handlers of tools/reminders.py and tools/lists.py: each awaits  *)
(* run_eventkit with one store operation and returns what it returned.      *)
GetReminder(id) ==
    /\ nOps < MaxOps
    /\ get_reminder_sync(id)
    /\ UNCHANGED <<concVars, hsVars, runVars, srvVars, batch>>

CreateReminder(list_id, a, ok, ids) ==
    /\ nOps < MaxOps
    /\ create_reminder_sync(list_id, a, ok, ids)
    /\ UNCHANGED <<concVars, hsVars, runVars, srvVars, batch>>

UpdateReminder(id, a, ok) ==
    /\ nOps < MaxOps
    /\ update_reminder_sync(id, a, ok)
    /\ UNCHANGED <<concVars, hsVars, runVars, srvVars, batch>>

CompleteReminder(id, completed, ok) ==
    /\ nOps < MaxOps
    /\ complete_reminder_sync(id, completed, ok)
    /\ UNCHANGED <<concVars, hsVars, runVars, srvVars, batch>>

MoveReminder(id, list_id, ok) ==
    /\ nOps < MaxOps
    /\ move_reminder_sync(id, list_id, ok)
    /\ UNCHANGED <<concVars, hsVars, runVars, srvVars, batch>>

DeleteReminder(id, ok) ==
    /\ nOps < MaxOps
    /\ delete_reminder_sync(id, ok)
    /\ UNCHANGED <<concVars, hsVars, runVars, srvVars, batch>>

CreateList(newId, ok) ==
    /\ nOps < MaxOps
    /\ create_list_sync(newId, ok)
    /\ UNCHANGED <<concVars, hsVars, runVars, srvVars, batch>>

DeleteList(list_id, ok) ==
    /\ nOps < MaxOps
    /\ delete_list_sync(list_id, ok)
    /\ UNCHANGED <<concVars, hsVars, runVars, srvVars, batch>>

----------------------------------------------------------------------------
(* The batch tools (tools/batch.py): a loop over the input, one store       *)
(* operation awaited per item, inside try/except Exception.                 *)
MaxBatch == 3

BatchInputs(S) == UNION {[1..n -> S] : n \in 0..MaxBatch}

(* What a tool returns: a bare list, or a dict with the list in one named   *)
(* field; and models.py lines 153-173, BatchResult.                         *)
Bare(items) == [wrapper |-> "none", items |-> items]
Wrapped(name, items) == [wrapper |-> name, items |-> items]
BatchResult(successes, failures, failed_ids, errors) ==
    [wrapper |-> "BatchResult", successes |-> successes, failures |-> failures,
     failed_ids |-> failed_ids, errors |-> errors]

(* tools/batch.py lines 20-24, 58-62, 98-99: the locals before the loop.    *)
(* raised, natives and targets record, per item attempted, whether its      *)
(* operation raised, what the native commit did, and the local identifier   *)
(* of the reminder the operation resolved or created.                       *)
NewBatch(tool, list_id, items) ==
    [status |-> "looping", tool |-> tool, list_id |-> list_id, items |-> items,
     i |-> 1, successes |-> 0, failures |-> 0, failed_ids |-> <<>>, errors |-> <<>>,
     created |-> <<>>, raised |-> <<>>, natives |-> <<>>, targets |-> <<>>,
     result |-> NoDict]

(* One tool call is followed from a database on which none was made yet. *)
NothingCalled == batch = NoBatch /\ last = NoOp

BatchEnter(tool, list_id, items) ==
    /\ NothingCalled
    /\ batch' = NewBatch(tool, list_id, items)
    /\ UNCHANGED <<ekstore, lists, nOps, last, prev, gone>>
    /\ UNCHANGED <<concVars, hsVars, runVars, srvVars>>

InLoop(tool) ==
    /\ batch.status = "looping"
    /\ batch.tool = tool
    /\ batch.i <= Len(batch.items)

(* The local identifier of the reminder the operation rec acted on. *)
TargetOf(rec) ==
    IF rec.op = "create" THEN rec.item
    ELSE IF rec.item = 0 THEN "None" ELSE rec.pre[rec.item].loc

Attempted(b, rec) ==
    [b EXCEPT !.i = @ + 1,
              !.raised = Append(@, rec.out # Ok),
              !.natives = Append(@, rec.native),
              !.targets = Append(@, TargetOf(rec))]

(* tools/batch.py lines 26-35 and 64-71: count the item, and on an          *)
(* exception keep its identifier and the exception's message.               *)
Tally(b, rec) ==
    IF rec.out = Ok
    THEN [Attempted(b, rec) EXCEPT !.successes = @ + 1]
    ELSE [Attempted(b, rec) EXCEPT !.failures = @ + 1,
                                   !.failed_ids = Append(@, b.items[b.i]),
                                   !.errors = Append(@, rec.out)]

(* tools/batch.py lines 101-116: keep the created reminder; an exception is *)
(* passed over.                                                             *)
Collect(b, rec) ==
    IF rec.out = Ok
    THEN [Attempted(b, rec) EXCEPT !.created = Append(@, rec.value)]
    ELSE Attempted(b, rec)

(* tools/batch.py lines 26-35: one turn of the loop of complete_reminders. *)
CompleteItem(ok) ==
    /\ InLoop("complete_reminders")
    /\ complete_reminder_sync(batch.items[batch.i], TRUE, ok)
    /\ batch' = Tally(batch, last')
    /\ UNCHANGED <<concVars, hsVars, runVars, srvVars>>

(* tools/batch.py lines 64-71: one turn of the loop of delete_reminders. *)
DeleteItem(ok) ==
    /\ InLoop("delete_reminders")
    /\ delete_reminder_sync(batch.items[batch.i], ok)
    /\ batch' = Tally(batch, last')
    /\ UNCHANGED <<concVars, hsVars, runVars, srvVars>>

(* tools/batch.py lines 101-116: one turn of the loop of add_reminders. *)
AddItem(ok, ids) ==
    /\ InLoop("add_reminders")
    /\ create_reminder_sync(batch.list_id,
                            [CreateDefaults EXCEPT !.title = batch.items[batch.i]], ok, ids)
    /\ batch' = Collect(batch, last')
    /\ UNCHANGED <<concVars, hsVars, runVars, srvVars>>

(* tools/batch.py lines 37-42, 73-78 and 118: what the tool returns. *)
BatchReturn ==
    /\ batch.status = "looping"
    /\ batch.i > Len(batch.items)
    /\ batch' = [batch EXCEPT
          !.status = "returned",
          !.result = IF batch.tool = "add_reminders" THEN Bare(batch.created)
                     ELSE BatchResult(batch.successes, batch.failures,
                                      batch.failed_ids, batch.errors)]
    /\ UNCHANGED <<ekstore, lists, nOps, last, prev, gone>>
    /\ UNCHANGED <<concVars, hsVars, runVars, srvVars>>

----------------------------------------------------------------------------
(* The tools that return collections (tools/lists.py, tools/reminders.py,   *)
(* tools/search.py).                                                        *)
NoLimit == 0 - 100
OffsetIn == {0 - 1, 0, 1, 2}
LimitIn == {NoLimit, 0 - 1, 0, 1, 2}
QueryIn == {<<>>, <<1>>, <<2>>, <<1, 1>>}

Min(x, y) == IF x <= y THEN x ELSE y
Max(x, y) == IF x >= y THEN x ELSE y

(* Python's items[offset:] and items[:limit], negative bounds counting      *)
(* from the end.                                                            *)
SliceFrom(items, offset) ==
    LET n == Len(items)
        start == IF offset >= 0 THEN Min(offset, n) ELSE Max(n + offset, 0) IN
    SubSeq(items, start + 1, n)

SliceTo(items, limit) ==
    LET n == Len(items)
        stop == IF limit >= 0 THEN Min(limit, n) ELSE Max(n + limit, 0) IN
    SubSeq(items, 1, stop)

(* A variant of _paginate that cuts to the limit before it skips. *)
paginateLimitFirst(items, offset, limit) ==
    LET cut == IF limit # NoLimit THEN SliceTo(items, limit) ELSE items IN
    IF TruthyInt(offset) THEN SliceFrom(cut, offset) ELSE cut

(* tools/reminders.py lines 10-16 and tools/search.py lines 9-15, _paginate. *)
paginate(items, offset, limit) ==
    LET skipped == IF TruthyInt(offset) THEN SliceFrom(items, offset) ELSE items IN
    IF limit # NoLimit THEN SliceTo(skipped, limit) ELSE skipped

(* str.lower(): character 2 is the capital of character 1.                  *)
Lower(t) == [k \in 1..Len(t) |-> IF t[k] = 2 THEN 1 ELSE t[k]]

(* Python's "q in t" on strings. *)
Contains(q, t) ==
    \E k \in 0..(Len(t) - Len(q)) : SubSeq(t, k + 1, k + Len(q)) = q

(* store.py lines 152-161, get_lists_sync: the calendars, each with whether *)
(* it is the default one.                                                   *)
get_lists_sync ==
    LET one(l) == IF l \in lists THEN <<[id |-> l, is_default |-> l = DefaultCalendar]>>
                  ELSE <<>> IN
    one("L1") \o one("L2")

(* The native predicates of store.py lines 309-320: every reminder of the   *)
(* calendars, or the incomplete ones, with a due date in the range when a   *)
(* bound is given.                                                          *)
Matches(r, list_id, include_completed, due_before, due_after) ==
    /\ r.kind = "reminder"
    /\ list_id # NoList => r.list = list_id
    /\ \/ include_completed
       \/ /\ ~r.completed
          /\ \/ due_before = NoDate /\ due_after = NoDate
             \/ /\ r.f.due # NoDate
                /\ due_after # NoDate => due_after <= components_to_datetime(r.f.due)
                /\ due_before # NoDate => components_to_datetime(r.f.due) <= due_before

(* store.py lines 281-337, get_reminders_sync: the list is looked up, the   *)
(* fetch is issued, and the converted reminders are returned if the         *)
(* completion handler ran within DEFAULT_TIMEOUT.                           *)
get_reminders_sync(list_id, include_completed, due_before, due_after, timely) ==
    IF list_id # NoList /\ calendarWithIdentifier(list_id) = NoList
    THEN [out |-> NotFoundError, items |-> <<>>]
    ELSE IF ~timely
    THEN [out |-> "TimeoutError", items |-> <<>>]
    ELSE LET found == SelectSeq(ekstore,
                 LAMBDA r : Matches(r, list_id, include_completed, due_before, due_after)) IN
         [out |-> Ok, items |-> [k \in 1..Len(found) |-> ek_reminder_to_dict(found[k])]]

(* A finished query is recorded with its arguments, what the store          *)
(* returned, and what the tool returned.                                    *)
Answer(op, args, fetched, value) ==
    /\ last' = [op |-> op, args |-> args, out |-> fetched.out, fetched |-> fetched.items,
                value |-> IF fetched.out = Ok THEN value ELSE NoDict]
    /\ UNCHANGED <<ekstore, lists, nOps, prev, gone, batch>>
    /\ UNCHANGED <<concVars, hsVars, runVars, srvVars>>

(* tools/lists.py lines 7-18. *)
ListReminderLists ==
    /\ NothingCalled
    /\ Answer("list_reminder_lists", NoArgs, [out |-> Ok, items |-> get_lists_sync],
              Wrapped("lists", get_lists_sync))

(* tools/reminders.py lines 19-50. *)
GetReminders(list_id, include_completed, due_before, due_after, limit, offset, timely) ==
    /\ NothingCalled
    /\ LET fetched == get_reminders_sync(list_id, include_completed, due_before, due_after,
                                         timely) IN
       Answer("get_reminders",
              [list_id |-> list_id, include_completed |-> include_completed,
               due_before |-> due_before, due_after |-> due_after,
               limit |-> limit, offset |-> offset],
              fetched, Wrapped("reminders", paginate(fetched.items, offset, limit)))

(* tools/search.py lines 56-62: the reminders whose title or notes contain  *)
(* the query, whatever the case.                                            *)
Matching(reminders, query) ==
    LET orEmpty(t) == IF t = NoText THEN <<>> ELSE t IN
    SelectSeq(reminders,
              LAMBDA data : \/ Contains(Lower(query), Lower(orEmpty(data.title)))
                            \/ Contains(Lower(query), Lower(orEmpty(data.notes))))

(* tools/search.py lines 18-66. *)
SearchReminders(query, list_id, include_completed, limit, offset, timely) ==
    /\ NothingCalled
    /\ LET fetched == get_reminders_sync(list_id, include_completed, NoDate, NoDate, timely) IN
       Answer("search_reminders",
              [query |-> query, list_id |-> list_id, include_completed |-> include_completed,
               limit |-> limit, offset |-> offset],
              fetched, Bare(paginate(Matching(fetched.items, query), offset, limit)))

----------------------------------------------------------------------------
(* Specifications. *)
Init == InitHandshake /\ InitRun /\ InitServer /\ InitStore /\ InitConc

(* The resolvers on every database of up to MaxItems plain items. *)
InitResolve ==
    /\ InitHandshake /\ InitRun /\ InitServer /\ InitConc
    /\ ekstore \in PlainStores
    /\ lists = {"L1"}
    /\ nOps = 0
    /\ last = NoOp
    /\ prev = NoOp
    /\ gone = {}
    /\ batch = NoBatch

NextResolve == \E id \in IdSpace : Resolve(id)

ResolveSpec == InitResolve /\ [][NextResolve]_vars

(* The store operations on a database that already holds reminders: one,   *)
(* two of which one's external identifier is the other's local one, or two  *)
(* that share their external identifier.                                    *)
SeedStores ==
    {<<PlainItem("reminder", "a", "a")>>,
     <<PlainItem("reminder", "a", "b")>>,
     <<PlainItem("reminder", "a", "b"), PlainItem("reminder", "b", "c")>>,
     <<PlainItem("reminder", "a", "c"), PlainItem("reminder", "b", "c")>>}

InitOps ==
    /\ InitHandshake /\ InitRun /\ InitServer /\ InitConc
    /\ ekstore \in SeedStores
    /\ lists = {"L1"}
    /\ nOps = 0
    /\ last = NoOp
    /\ prev = NoOp
    /\ gone = {}
    /\ batch = NoBatch

(* The operations are enumerated only while the bound on their number     *)
(* leaves one to run.                                                       *)
WhileOpsLeft(S) == IF nOps < MaxOps THEN S ELSE {}

NextStore ==
    \/ \E id \in WhileOpsLeft(IdSpace) : GetReminder(id)
    \/ \E list_id \in WhileOpsLeft(ListIds \cup {NoList}), a \in CreateArgs, ok \in BOOLEAN,
             ids \in FreshIds(ekstore) : CreateReminder(list_id, a, ok, ids)
    \/ \E id \in WhileOpsLeft(IdSpace), a \in UpdateArgs, ok \in BOOLEAN :
          UpdateReminder(id, a, ok)
    \/ \E id \in WhileOpsLeft(IdSpace), completed \in BOOLEAN, ok \in BOOLEAN :
          CompleteReminder(id, completed, ok)
    \/ \E id \in WhileOpsLeft(IdSpace), list_id \in ListIds, ok \in BOOLEAN :
          MoveReminder(id, list_id, ok)
    \/ \E id \in WhileOpsLeft(IdSpace), ok \in BOOLEAN : DeleteReminder(id, ok)
    \/ \E newId \in WhileOpsLeft(ListIds), ok \in BOOLEAN : CreateList(newId, ok)
    \/ \E list_id \in WhileOpsLeft(ListIds), ok \in BOOLEAN : DeleteList(list_id, ok)

StoreSpec == InitOps /\ [][NextStore]_vars

(* One call of a batch tool on a database that already holds reminders. *)
NextBatch ==
    \/ \E tool \in {"complete_reminders", "delete_reminders"}, items \in BatchInputs(IdSpace) :
          BatchEnter(tool, NoList, items)
    \/ \E list_id \in ListIds \cup {NoList}, items \in BatchInputs(TextIn) :
          BatchEnter("add_reminders", list_id, items)
    \/ \E ok \in BOOLEAN : CompleteItem(ok)
    \/ \E ok \in BOOLEAN : DeleteItem(ok)
    \/ \E ok \in BOOLEAN, ids \in FreshIds(ekstore) : AddItem(ok, ids)
    \/ BatchReturn

BatchSpec == InitOps /\ [][NextBatch]_vars

(* One call of a tool that returns a collection, on an empty database, on a *)
(* database without lists, and on one with reminders of two lists, one of   *)
(* them completed, and an event.                                            *)
QueryItem(kind, loc, list, completed, title, notes, due) ==
    [PlainItem(kind, loc, loc) EXCEPT
        !.list = list, !.completed = completed,
        !.f = [DefaultFields EXCEPT !.title = title, !.notes = notes, !.due = due]]

QuerySeeds ==
    {[store |-> <<>>, lists |-> {}],
     [store |-> <<>>, lists |-> {"L1"}],
     [store |-> <<QueryItem("reminder", "a", "L1", FALSE, <<2>>, NoText, 1)>>,
      lists |-> {"L1"}],
     [store |-> <<QueryItem("reminder", "a", "L1", FALSE, <<1>>, <<2, 2>>, 1),
                  QueryItem("reminder", "b", "L2", TRUE, <<2, 1>>, NoText, NoDate),
                  QueryItem("event", "c", "L1", FALSE, <<1>>, NoText, NoDate)>>,
      lists |-> {"L1", "L2"}]}

InitQuery ==
    /\ InitHandshake /\ InitRun /\ InitServer /\ InitConc
    /\ \E seed \in QuerySeeds : ekstore = seed.store /\ lists = seed.lists
    /\ nOps = 0
    /\ last = NoOp
    /\ prev = NoOp
    /\ gone = {}
    /\ batch = NoBatch

NextQuery ==
    \/ ListReminderLists
    \/ \E list_id \in ListIds \cup {NoList}, include_completed \in BOOLEAN,
          due_before \in DateIn \cup {NoDate}, due_after \in DateIn \cup {NoDate},
          limit \in LimitIn, offset \in OffsetIn, timely \in BOOLEAN :
          GetReminders(list_id, include_completed, due_before, due_after, limit, offset, timely)
    \/ \E query \in QueryIn, list_id \in ListIds \cup {NoList}, include_completed \in BOOLEAN,
          limit \in LimitIn, offset \in OffsetIn, timely \in BOOLEAN :
          SearchReminders(query, list_id, include_completed, limit, offset, timely)
    \/ \E list_id \in ListIds \cup {NoList}, items \in BatchInputs(TextIn) :
          BatchEnter("add_reminders", list_id, items)
    \/ \E ok \in BOOLEAN, ids \in FreshIds(ekstore) : AddItem(ok, ids)
    \/ BatchReturn

QuerySpec == InitQuery /\ [][NextQuery]_vars

(* One call of get_reminders with a limit and an offset that are not        *)
(* negative, on a list of up to MaxPage reminders.                          *)
MaxPage == 5
PageNames == <<"p1", "p2", "p3", "p4", "p5", "p6", "p7">>
PageStore(n) ==
    [k \in 1..n |-> QueryItem("reminder", PageNames[k], "L1", FALSE, <<1>>, NoText, NoDate)]

InitPage ==
    /\ InitHandshake /\ InitRun /\ InitServer /\ InitConc
    /\ ekstore \in {PageStore(n) : n \in 0..MaxPage}
    /\ lists = {"L1"}
    /\ nOps = 0
    /\ last = NoOp
    /\ prev = NoOp
    /\ gone = {}
    /\ batch = NoBatch

NextPage ==
    \E limit \in 0..(MaxPage + 1), offset \in 0..(MaxPage + 1) :
        GetReminders("L1", FALSE, NoDate, NoDate, limit, offset, TRUE)

PageSpec == InitPage /\ [][NextPage]_vars

Next ==
    \/ \E t \in Threads : Enter(t) \/ GetInstanceStep(t)
    \/ NativeStep

Spec == Init /\ [][Next]_vars

NextRun == \E k \in Tasks : RunStep(k)

RunSpec == Init /\ [][NextRun]_vars

(* Tasks in run_eventkit whose callers may be cancelled at any point. *)
NextCancel ==
    \E k \in Tasks :
        \/ Submit(k)
        \/ Dispatch(k)
        \/ \E r \in {Value, Raised} : OpEnds(k, r)
        \/ ~cancelReq[k] /\ Exit(k)
        \/ CancelStep(k)

CancelSpec == Init /\ [][NextCancel]_vars

(* Tasks whose operation in run_eventkit is get_reminders_sync. *)
NextFetch ==
    \/ \E k \in Tasks :
        \/ Submit(k)
        \/ Dispatch(k)
        \/ FetchNoList(k)
        \/ FetchIssue(k)
        \/ FetchHandler(k)
        \/ FetchReturns(k)
        \/ FetchTimeout(k)
        \/ Exit(k)
    \/ \E g \in 1..MaxRuns : StaleHandler(g)

FetchSpec == Init /\ [][NextFetch]_vars

ServerNative ==
    /\ mainpc # "exited"
    /\ NativeStep

NextServer ==
    \/ \E code \in {0, 2} : MainArgsExit(code)
    \/ MainStart
    \/ MainGranted
    \/ MainFailed
    \/ GetInstanceStep(MainThread)
    \/ ServerNative
    \/ \E k \in Tasks :
        \/ ToolCall(k)
        \/ ToolGotStore(k)
        \/ Dispatch(k)
        \/ \E r \in {Value, Raised} : OpEnds(k, r)
        \/ Exit(k)

ServerSpec == Init /\ [][NextServer]_vars

(* The tool handlers called as library functions on a running event loop,  *)
(* without server.py's main having run (as tests/test_integration.py calls  *)
(* them): the first handler to run finds no committed instance.             *)
NextHandler ==
    \/ GetInstanceStep(LoopThread)
    \/ NativeStep
    \/ \E k \in Tasks :
        \/ HandlerCall(k)
        \/ ToolGotStore(k)
        \/ Dispatch(k)
        \/ \E r \in {Value, Raised} : OpEnds(k, r)
        \/ Exit(k)

HandlerSpec == Init /\ [][NextHandler]_vars

(* The fairness the schedulers give: the event loop resumes every ready     *)
(* task, a dispatched operation terminates, the operating system runs every *)
(* runnable thread and the deadline of event.wait elapses.                  *)
FairRunSpec ==
    /\ RunSpec
    /\ \A k \in Tasks :
        /\ WF_vars(Dispatch(k))
        /\ WF_vars(\E r \in {Value, Raised} : OpEnds(k, r))
        /\ WF_vars(Exit(k))

FairSpec ==
    /\ Spec
    /\ \A t \in Threads : WF_vars(GetInstanceStep(t))

----------------------------------------------------------------------------
(* Properties. *)

IsPrefix(a, b) == Len(a) <= Len(b) /\ \A i \in 1..Len(a) : a[i] = b[i]
Executing == {k \in Tasks : tpc[k] = "running"}
Active == {k \in Tasks : tpc[k] \in {"holding", "running", "finished"}}

(* C1: at most one wrapped operation is executing at any instant, and the   *)
(* operations start executing in exactly the order the permit was granted.  *)
C1_Serialized ==
    /\ Cardinality(Executing) <= 1
    /\ Executing \subseteq borrowers
    /\ IsPrefix(execOrder, grantOrder)

(* C1 witness: an operation executes while another caller queues, after an  *)
(* earlier operation has already executed.                                  *)
C1_Witness ==
    /\ Cardinality(Executing) = 1
    /\ waitq # <<>>
    /\ Len(execOrder) >= 2

(* C2: an operation that raises has its exception delivered to the caller   *)
(* and its permit released: the permit is held only by calls still in       *)
(* progress, nobody queues while it is free, and it is free once every call *)
(* has returned or raised.                                                  *)
C2_RaiseReleasesPermit ==
    /\ \A k \in Tasks : tpc[k] = "idle" /\ opResult[k] # NoResult => tres[k] = opResult[k]
    /\ borrowers = Active
    /\ (waitq # <<>> => borrowers # {})
    /\ ((\A k \in Tasks : tpc[k] = "idle") => borrowers = {} /\ waitq = <<>>)

(* C2 witness: a call has raised and returned, and another call now holds   *)
(* the permit and executes.                                                 *)
C2_Witness ==
    \E k, j \in Tasks :
        /\ k # j
        /\ tpc[k] = "idle"
        /\ tres[k] = Raised
        /\ tpc[j] = "running"

(* C3 (as claimed): the get_instance calls that began before the first call *)
(* completed initiate one handshake between them and all observe the same   *)
(* outcome.                                                                 *)
C3_OneHandshakeSameOutcome ==
    /\ cohortHandshakes <= 1
    /\ \A t, u \in Threads :
        cohortRes[t][1] # NoResult /\ cohortRes[u][1] # NoResult => cohortRes[t] = cohortRes[u]

(* C4: once an instance is committed it never changes and no further native *)
(* store or handshake is created; every call that returns, returns it.      *)
C4_NeverReinitialized ==
    /\ [][instance # 0 => instance' = instance /\ nAttempts' = nAttempts]_vars
    /\ [](\A t \in Threads :
            /\ (pc[t] = "idle" /\ ret[t] = Ok => retInst[t] = instance /\ instance # 0)
            /\ (instance # 0 => pc[t] \notin {"construct", "wait", "eval", "commit"}))

(* C4 witness: two threads have received the committed instance, one of     *)
(* them after passing the lock without constructing.                        *)
C4_Witness ==
    /\ instance # 0
    /\ nAttempts = 1
    /\ \E t, u \in Threads :
        /\ t # u
        /\ pc[t] = "idle" /\ ret[t] = Ok /\ retInst[t] = instance
        /\ pc[u] = "unlock" /\ att[u] = 0

(* What the claim says attempt k must end in, given what the native layer   *)
(* delivered and when.                                                      *)
Expected(k) ==
    IF native[k] = "pending" \/ late[k] THEN PermissionTimeoutError
    ELSE IF delivered[k][2] THEN EventKitError
    ELSE IF ~delivered[k][1] THEN AccessDeniedError
    ELSE Ok

(* C5: a declined handshake fails with AccessDeniedError, one with no       *)
(* response within the deadline with PermissionTimeoutError, any other      *)
(* native failure with EventKitError; the instance is committed only when   *)
(* access was granted and never by a failing attempt.                       *)
C5_HandshakeOutcomes ==
    /\ \A k \in Attempts : outcome[k] # NoResult => outcome[k] = Expected(k)
    /\ \A t \in Threads : pc[t] = "idle" /\ ret[t] \in Failures => retInst[t] = 0
    /\ (instance # 0 =>
            /\ outcome[instance] = Ok
            /\ delivered[instance] = <<TRUE, FALSE>>
            /\ accessGranted[instance])
    /\ \A k \in Attempts : outcome[k] \in Failures => instance # k /\ ~accessGranted[k]

(* C5 witness: a handshake that delivered an error together with a grant    *)
(* has failed with EventKitError, and a later handshake was granted and     *)
(* committed.                                                               *)
C5_Witness ==
    /\ instance = 2
    /\ outcome[1] = EventKitError
    /\ delivered[1] = <<TRUE, TRUE>>
    /\ \E t \in Threads : pc[t] = "idle" /\ ret[t] = EventKitError

(* C6: every get_instance call eventually returns or raises.                *)
C6_EveryCallEnds ==
    \A t \in Threads : (pc[t] # "idle") ~> (pc[t] = "idle")

(* C6 witness: a caller has observed the timeout while the native layer     *)
(* still has not answered, and a caller that was waiting for the lock has   *)
(* been admitted.                                                           *)
C6_Witness ==
    \E t, u \in Threads :
        /\ t # u
        /\ pc[t] = "idle" /\ ret[t] = PermissionTimeoutError
        /\ native[1] = "pending"
        /\ pc[u] = "inner" /\ inCohort[u]

(* C7: a timed-out attempt commits nothing, and a later attempt is a fresh  *)
(* handshake whose wait and outcome depend only on what the native layer    *)
(* delivers for its own request, even if the earlier handler fires late.    *)
C7_FreshRetryAfterTimeout ==
    /\ \A k \in Attempts : outcome[k] = PermissionTimeoutError => instance # k
    /\ \A t \in Threads :
        pc[t] \in {"wait", "eval"} /\ att[t] > 1 /\ outcome[att[t] - 1] = PermissionTimeoutError
            => /\ nAttempts = att[t]
               /\ (pc[t] = "wait" /\ native[att[t]] = "pending" => ~slot[SlotOf(att[t])].set)
               /\ (pc[t] = "eval" => native[att[t]] = "fired")
    /\ \A k \in Attempts :
        k > 1 /\ outcome[k - 1] = PermissionTimeoutError
              /\ outcome[k] \in {Ok, AccessDeniedError, EventKitError}
            => native[k] = "fired" /\ outcome[k] = Expected(k)

(* C7 witness: the first attempt timed out, its handler fired late with a   *)
(* denial, and the second attempt was granted and committed.                *)
C7_Witness ==
    /\ outcome[1] = PermissionTimeoutError
    /\ late[1]
    /\ delivered[1] = <<FALSE, FALSE>>
    /\ instance = 2

(* C8 (as claimed): no get_instance call that begins after a handshake was  *)
(* denied issues another native access request.                             *)
C8_DeniedNeverRequestedAgain ==
    \A t \in Threads : afterDenial[t] => pc[t] # "wait"

(* C8 (amended): the denied attempt commits nothing and grants nothing, and *)
(* a call that begins after the denial never returns without a committed    *)
(* instance: it finds one or runs a handshake of its own.                   *)
C8_DeniedRetriedByLaterCall ==
    /\ \A k \in Attempts :
        outcome[k] = AccessDeniedError => instance # k /\ ~accessGranted[k]
    /\ \A t \in Threads :
        afterDenial[t] /\ pc[t] \in {"unlock", "ret"} => instance # 0
    /\ \A t \in Threads :
        afterDenial[t] /\ pc[t] = "idle" /\ ret[t] = Ok => retInst[t] # 0

(* C8 witness: a call that began after a denial is awaiting the response to *)
(* a native access request of its own.                                      *)
C8_Witness ==
    \E t \in Threads :
        /\ afterDenial[t]
        /\ pc[t] = "wait"
        /\ outcome[att[t] - 1] = AccessDeniedError

(* C9: main reaches mcp.run() only with a committed instance; a failed      *)
(* handshake ends the process with a non-zero status and no tool call is    *)
(* ever served.                                                             *)
C9_StartupGate ==
    /\ (mainpc = "serving" => instance # 0)
    /\ (served > 0 => instance # 0)
    /\ (mainpc = "exited" => exitCode # NoExit /\ served = 0)
    /\ (mainpc \in {"start", "handshake", "serving"} => exitCode = NoExit)
    /\ \A k \in Attempts :
        outcome[k] \in Failures =>
            /\ mainpc \in {"handshake", "exited"}
            /\ (mainpc = "exited" => exitCode = 1)
            /\ served = 0

(* C9 witness: the user declined at startup and the process has exited with *)
(* status 1.                                                                *)
C9_Witness ==
    /\ mainpc = "exited"
    /\ exitCode = 1
    /\ outcome[1] = AccessDeniedError
    /\ served = 0

----------------------------------------------------------------------------
(* Blocking inside a tool handler. *)

(* The handler of task k waits inside run_eventkit: for the permit, or for  *)
(* its operation in the worker.                                             *)
BlockedInRun(k) == tpc[k] \in {"queued", "running"}

(* The handler of task k waits inside get_instance for the handshake        *)
(* (store.py line 88, reached from e.g. tools/reminders.py line 65).        *)
InHandshakeWait(k) == tpc[k] = "getstore" /\ pc[LoopThread] = "wait"

(* The event loop's thread is executing a handler's synchronous code (it is *)
(* neither idle nor blocked).                                               *)
LoopRunning ==
    \/ pc[LoopThread] \notin {"idle", "wait"}
    \/ pc[LoopThread] = "idle" /\ \E k \in Tasks : tpc[k] = "getstore"

(* Task j is ready: the scheduler has a step of it to run. *)
Ready(j) ==
    \/ tpc[j] \in {"holding", "finished"}
    \/ tpc[j] = "idle" /\ runs < MaxRuns
TaskStep(j) == HandlerCall(j) \/ Dispatch(j) \/ Exit(j)

(* C11 (as claimed): whenever a tool handler is blocked in a native call,   *)
(* in run_eventkit or in the handshake wait of get_instance, every other    *)
(* ready task can take its step.                                            *)
C11_NativeCallNeverStalls ==
    \A k \in Tasks :
        (BlockedInRun(k) \/ InHandshakeWait(k)) /\ ~LoopRunning =>
            \A j \in Tasks \ {k} : Ready(j) => ENABLED TaskStep(j)

(* C11 (amended): a handler blocked in run_eventkit never stalls the ready  *)
(* tasks; a handler blocked in the handshake wait of get_instance stalls    *)
(* every task, which happens only while no instance is committed, and never *)
(* while another handler is inside run_eventkit.                            *)
C11_OnlyHandshakeStalls ==
    \A k \in Tasks :
        /\ BlockedInRun(k) /\ ~LoopRunning =>
               \A j \in Tasks \ {k} : Ready(j) => ENABLED TaskStep(j)
        /\ InHandshakeWait(k) =>
               /\ instance = 0
               /\ \A j \in Tasks : ~BlockedInRun(j) /\ ~ENABLED TaskStep(j)

(* C11 witness: one handler's operation executes in the worker, a second    *)
(* handler queues for the permit and a third task is ready to start.        *)
C11_Witness ==
    \E k, j, i \in Tasks :
        /\ tpc[k] = "running"
        /\ tpc[j] = "queued"
        /\ tpc[i] = "idle"
        /\ Ready(i)
        /\ ~LoopRunning
        /\ ENABLED TaskStep(i)

----------------------------------------------------------------------------
(* Resolution of a reminder by identifier. *)

RemindersWithLocal(id) ==
    {i \in 1..Len(ekstore) : ekstore[i].kind = "reminder" /\ ekstore[i].loc = id}
RemindersWithExternal(id) ==
    {i \in 1..Len(ekstore) : ekstore[i].kind = "reminder" /\ ekstore[i].ext = id}

(* C16: a reminder with the identifier as its local identifier is resolved  *)
(* whenever there is one; otherwise the first reminder with the identifier  *)
(* as its external identifier; NotFoundError exactly when there is neither; *)
(* and get_reminder_sync and _get_reminder_by_id resolve to the same         *)
(* reminder.                                                                *)
C16_TwoStepResolution ==
    last.op = "resolve" =>
        LET L == RemindersWithLocal(last.id)
            E == RemindersWithExternal(last.id) IN
        /\ last.get = last.byId
        /\ (L # {} => last.byId \in L)
        /\ (L = {} /\ E # {} =>
               last.byId \in E /\ \A i \in E : last.byId <= i)
        /\ (last.byId = 0 <=> L = {} /\ E = {})

(* C16 witness: the identifier is the local identifier of one reminder and *)
(* the external identifier of another that comes earlier in the native      *)
(* order, and the one with the local identifier is resolved.                *)
C16_Witness ==
    /\ last.op = "resolve"
    /\ last.byId # 0
    /\ ekstore[last.byId].loc = last.id
    /\ \E i \in RemindersWithExternal(last.id) : i < last.byId

----------------------------------------------------------------------------
(* The store operations. *)

Done(ops) == last.op \in ops
Mutations == {"create", "update", "complete", "move", "delete", "create_list", "delete_list"}

(* C12 (as claimed): when the native save or remove call of an operation    *)
(* reports failure, the operation raises EventKitError and returns nothing. *)
C12_NativeFailureRaises ==
    Done(Mutations) /\ last.native = "failed" =>
        last.out = EventKitError /\ last.value = NoDict

(* The reminder an operation resolved, as the database holds it before and  *)
(* after, seen through the converter.                                       *)
Before == ek_reminder_to_dict(last.pre[last.item])
After == ek_reminder_to_dict(ekstore[last.item])

(* C17 (as claimed): after update_reminder has returned, each of the six    *)
(* fields of the reminder has the provided value if one was provided and    *)
(* its earlier value if not, and the list and the completion state are the  *)
(* earlier ones.                                                            *)
C17_PartialUpdate ==
    Done({"update"}) /\ last.out = Ok =>
        /\ \A n \in FieldNames :
              After[n] = IF last.args[n] # NoArgs[n] THEN last.args[n] ELSE Before[n]
        /\ After.list_id = Before.list_id
        /\ After.is_completed = Before.is_completed

(* C18 (as claimed): an identifier that delete_reminder has returned True   *)
(* for, and that has not been created again, makes get, update, complete,   *)
(* move and delete raise NotFoundError; delete_reminder of an identifier    *)
(* that does not resolve raises NotFoundError and leaves the database as it *)
(* was.                                                                     *)
C18_DeletedStaysGone ==
    /\ Done({"get", "update", "complete", "move", "delete"}) /\ last.id \in gone
          /\ ~(last.op = "delete" /\ last.out = Ok)
          => last.out = NotFoundError
    /\ Done({"delete"}) /\ GetReminderById(last.pre, last.id) = 0
          => last.out = NotFoundError /\ ekstore = last.pre

(* C19 (as claimed): get_reminder of the identifier that create_reminder    *)
(* has just returned resolves to the created reminder and returns its       *)
(* identifier and the title, list, notes, priority and due date given.      *)
C19_CreateGetRoundTrip ==
    Done({"get"}) /\ prev.op = "create" /\ prev.out = Ok /\ last.id = prev.value.id =>
        /\ last.out = Ok
        /\ ekstore[last.item].loc = prev.item
        /\ last.value.id = prev.value.id
        /\ last.value.title = prev.args.title
        /\ last.value.list_id = IF prev.list # NoList THEN prev.list ELSE "L1"
        /\ last.value.notes = prev.args.notes
        /\ last.value.priority = prev.args.priority
        /\ last.value.due_date = prev.args.due_date

(* C20 (as claimed): complete_reminder called a second time in a row on the *)
(* same, existing reminder raises nothing, and after it the reminder's      *)
(* completion state is the value passed, whether that is the value of the   *)
(* first call or the opposite one.                                          *)
C20_CompleteIdempotent ==
    Done({"complete"}) /\ prev.op = "complete" /\ prev.out = Ok /\ prev.id = last.id =>
        /\ last.out = Ok
        /\ last.value.is_completed = (last.args.priority = 1)
        /\ ekstore[last.item].completed = (last.args.priority = 1)

----------------------------------------------------------------------------
(* The batch tools. *)
Returned(tools) == batch.status = "returned" /\ batch.tool \in tools
CountingTools == {"complete_reminders", "delete_reminders"}

(* The input items whose operation raised, in input order. *)
RaisedItems(b) ==
    LET idx == SelectSeq([k \in 1..Len(b.items) |-> k], LAMBDA k : b.raised[k]) IN
    [j \in 1..Len(idx) |-> b.items[idx[j]]]

(* The effect of item k of the batch is in the database. *)
Applied(b, k) ==
    IF b.tool = "complete_reminders"
    THEN \E j \in 1..Len(ekstore) : ekstore[j].loc = b.targets[k] /\ ekstore[j].completed
    ELSE \A j \in 1..Len(ekstore) : ekstore[j].loc # b.targets[k]

(* Every item was attempted once, in order, and the result counts them:    *)
(* successes + failures = len(reminder_ids), failed_ids is the subsequence  *)
(* of the identifiers whose operation raised, with one message each.        *)
Accounted(b) ==
    /\ Len(b.raised) = Len(b.items)
    /\ b.result.successes + b.result.failures = Len(b.items)
    /\ b.result.failed_ids = RaisedItems(b)
    /\ Len(b.result.errors) = Len(b.result.failed_ids)
    /\ b.result.failures = Len(b.result.failed_ids)

(* C13, as claimed: complete_reminders and delete_reminders attempt every   *)
(* identifier once and in order, successes + failures = len(reminder_ids),  *)
(* failed_ids is the subsequence of the identifiers whose operation raised, *)
(* errors has one message per failed identifier, and every item that        *)
(* succeeded (did not raise) is applied when the tool returns.              *)
C13_BatchCountsAndApplies ==
    Returned(CountingTools) =>
        /\ Accounted(batch)
        /\ \A k \in 1..Len(batch.items) : ~batch.raised[k] => Applied(batch, k)

(* What holds of the loop in every run: the accounting, and no rollback of  *)
(* an item that the native layer committed.                                 *)
BatchAccountingNoRollback ==
    Returned(CountingTools) =>
        /\ Accounted(batch)
        /\ \A k \in 1..Len(batch.items) : batch.natives[k] = "ok" => Applied(batch, k)

(* The items the returned result identifies as failed. *)
ReportedFailed(result) ==
    IF result.wrapper = "BatchResult"
    THEN {result.failed_ids[j] : j \in 1..Len(result.failed_ids)}
    ELSE {}

(* C14, as claimed: whichever batch tool ran, every input item whose        *)
(* operation raised is identified as failed by the returned result.         *)
C14_EveryFailureReported ==
    Returned({"complete_reminders", "delete_reminders", "add_reminders"}) =>
        \A k \in 1..Len(batch.items) :
            batch.raised[k] => batch.items[k] \in ReportedFailed(batch.result)

----------------------------------------------------------------------------
(* The shape of returned collections. *)
CollectionTools == {"list_reminder_lists", "get_reminders", "search_reminders"}
FieldNamesOfCollections == {"lists", "reminders"}

(* C15, as claimed: whatever list_reminder_lists, get_reminders,            *)
(* search_reminders or add_reminders returns is a collection wrapped in a   *)
(* field named "lists" or "reminders", the empty collection included.       *)
C15_CollectionsWrapped ==
    /\ (Done(CollectionTools) /\ last.out = Ok) =>
           last.value.wrapper \in FieldNamesOfCollections
    /\ Returned({"add_reminders"}) => batch.result.wrapper \in FieldNamesOfCollections

----------------------------------------------------------------------------
(* Pagination. *)
Range(s) == {s[k] : k \in 1..Len(s)}

(* The page of the sequence all at offset j * L, and the first m pages put  *)
(* one after the other.                                                     *)
PageAt(all, L, j) == paginate(all, j * L, L)

RECURSIVE FirstPages(_, _, _)
FirstPages(all, L, m) ==
    IF m = 0 THEN <<>> ELSE FirstPages(all, L, m - 1) \o PageAt(all, L, m - 1)

(* C21: get_reminders(limit=L, offset=K) with K >= 0 and L >= 0 returns the *)
(* items at positions K .. K+L-1 of the fetched sequence, cut at its end,   *)
(* in order; the pages at offsets 0, L, 2L, ... have no item in common, and *)
(* the first m of them put together are the first m*L items of the          *)
(* sequence, all of it as soon as m*L reaches its length.                   *)
C21_Pagination ==
    (Done({"get_reminders"}) /\ last.out = Ok) =>
        LET all == last.fetched
            n == Len(all)
            K == last.args.offset
            L == last.args.limit IN
        /\ last.value.items = SubSeq(all, K + 1, Min(K + L, n))
        /\ \A j1, j2 \in 0..(MaxPage + 1) :
               j1 # j2 => Range(PageAt(all, L, j1)) \cap Range(PageAt(all, L, j2)) = {}
        /\ \A m \in 0..(MaxPage + 1) :
               FirstPages(all, L, m) = SubSeq(all, 1, Min(m * L, n))

(* Five reminders, limit=2, offset=2: the third and the fourth.             *)
C21_Witness ==
    /\ Done({"get_reminders"})
    /\ Len(last.fetched) = 5
    /\ last.args.limit = 2 /\ last.args.offset = 2
    /\ last.value.items = <<last.fetched[3], last.fetched[4]>>

----------------------------------------------------------------------------
(* Cancellation. *)
InWorker == {k \in Tasks : tpc[k] = "running"}

(* C22: an operation handed to the worker runs to its end even if its       *)
(* caller is cancelled, and the token stays with that caller until then, so *)
(* no second operation starts while it runs; a caller cancelled while it    *)
(* waits for the token leaves the queue, is not handed the token later and  *)
(* has nothing dispatched.                                                  *)
C22_CancelKeepsPermit ==
    /\ [](/\ Cardinality(InWorker) <= 1
          /\ \A k \in Tasks : tpc[k] \in {"running", "finished"} => k \in borrowers
          /\ \A k \in borrowers : tpc[k] \in {"holding", "running", "finished"}
          /\ \A i \in 1..Len(waitq) : tpc[waitq[i]] = "queued")
    /\ [][\A k \in Tasks :
            /\ tpc[k] = "running" => tpc'[k] \in {"running", "finished"}
            /\ (tpc[k] = "queued" /\ tpc'[k] = "idle") =>
                   /\ tres'[k] = Cancelled
                   /\ borrowers' = borrowers
                   /\ execOrder' = execOrder]_vars

(* A caller is cancelled while its operation runs and another task queues. *)
C22_Witness ==
    \E k \in Tasks : cancelReq[k] /\ tpc[k] = "running" /\ waitq # <<>>

----------------------------------------------------------------------------
(* The completion handler of a fetch. *)

(* C23, as claimed: whenever the completion handler of a fetch runs, the    *)
(* call that issued the fetch still holds the token, also when the handler  *)
(* runs after the deadline of that call: no handler runs after the token    *)
(* was released or under a later grant.                                     *)
C23_HandlerWithinPermitHold ==
    [][/\ \A k \in Tasks :
            (fetch[k] = "pending" /\ fetch'[k] = "fired") =>
                tpc[k] = "running" /\ k \in borrowers
       /\ \A g \in stale \ stale' :
            Len(grantOrder) = g /\ grantOrder[g] \in borrowers]_vars

(* The handler of a fetch that completes before the deadline does run while *)
(* its call holds the token.                                                *)
TimelyHandlerWithinPermitHold ==
    [][\A k \in Tasks :
           (fetch[k] = "pending" /\ fetch'[k] = "fired") =>
               tpc[k] = "running" /\ k \in borrowers]_vars

\* ---------------------------------------------------------------------------
\* The bounded waits and the request-timeout setting
\* (constants.py line 6, store.py lines 44, 86-89 and 332-335).
\* Time is counted in seconds, in steps of TickSeconds.

DEFAULT_TIMEOUT == 60

MaxEnv == 4
TickSeconds == 10

\* The values REQUEST_TIMEOUT may be set to in the environment.
EnvSettings == {NoEnv} \cup {30 * n : n \in 1..MaxEnv}

\* constants.py: float(os.environ.get("REQUEST_TIMEOUT", "60.0"))
REQUEST_TIMEOUT(e) == IF e = NoEnv THEN 60 ELSE e

\* The deadline a wait of the store is given: event.wait(timeout=DEFAULT_TIMEOUT).
WaitTimeout(e) == DEFAULT_TIMEOUT

WaitKinds == {"handshake", "fetch"}

\* The request is issued and the thread starts waiting on the event.
BeginWait(kind) ==
    /\ wait = NoWait
    /\ wait' = [state |-> "waiting", kind |-> kind,
                deadline |-> WaitTimeout(env), elapsed |-> 0]
    /\ UNCHANGED <<env, workVars, cancelReq, fetch, stale, hsVars, runVars, srvVars, storeVars>>

\* Time passes while the event is not set.
Tick ==
    /\ wait.state = "waiting"
    /\ wait.elapsed < wait.deadline
    /\ wait' = [wait EXCEPT !.elapsed = @ + TickSeconds]
    /\ UNCHANGED <<env, workVars, cancelReq, fetch, stale, hsVars, runVars, srvVars, storeVars>>

\* The completion handler sets the event before the deadline: wait returns True.
Signal ==
    /\ wait.state = "waiting"
    /\ wait.elapsed < wait.deadline
    /\ wait' = [wait EXCEPT !.state = "signalled"]
    /\ UNCHANGED <<env, workVars, cancelReq, fetch, stale, hsVars, runVars, srvVars, storeVars>>

\* The deadline passes: wait returns False and TimeoutError is raised.
Expire ==
    /\ wait.state = "waiting"
    /\ wait.elapsed >= wait.deadline
    /\ wait' = [wait EXCEPT !.state = "expired"]
    /\ UNCHANGED <<env, workVars, cancelReq, fetch, stale, hsVars, runVars, srvVars, storeVars>>

InitConfig ==
    /\ InitHandshake /\ InitRun /\ InitServer /\ InitStore
    /\ cancelReq = [k \in Tasks |-> FALSE]
    /\ fetch = [k \in Tasks |-> "none"]
    /\ stale = {}
    /\ env \in EnvSettings
    /\ wait = NoWait
    /\ work = [k \in Tasks |-> NoWork]
    /\ shadow = <<>>

NextConfig ==
    \/ \E kind \in WaitKinds : BeginWait(kind)
    \/ Tick
    \/ Signal
    \/ Expire

ConfigSpec == InitConfig /\ [][NextConfig]_vars

\* C24: the bounded wait of the permission handshake and of the reminder fetch
\* lasts the configured request-timeout: 60 seconds when REQUEST_TIMEOUT is not
\* set, and the value of REQUEST_TIMEOUT when it is set.
C24_WaitIsRequestTimeout ==
    wait.state # "none" => wait.deadline = REQUEST_TIMEOUT(env)

\* The half that holds: with no override, both waits last 60 seconds.
DefaultWaitIsSixty ==
    (wait.state # "none" /\ env = NoEnv) => wait.deadline = 60

\* A wait that expired did so after exactly DEFAULT_TIMEOUT seconds or one tick more.
ExpiredAtDefault ==
    wait.state = "expired" =>
        /\ wait.elapsed >= DEFAULT_TIMEOUT
        /\ wait.elapsed < DEFAULT_TIMEOUT + TickSeconds

\* ---------------------------------------------------------------------------
\* The filters of get_reminders.

GotReminders == last.op = "get_reminders" /\ last.out = Ok

\* A returned reminder is within the due bounds of the call: it has a due date
\* when strict, and its due date is not outside a bound that was given.
WithinDue(d, args, strict) ==
    /\ (strict /\ (args.due_before # NoDate \/ args.due_after # NoDate)) => d.due_date # NoDate
    /\ (args.due_before # NoDate /\ d.due_date # NoDate) => d.due_date <= args.due_before
    /\ (args.due_after # NoDate /\ d.due_date # NoDate) => args.due_after <= d.due_date

\* C25: the filters of get_reminders restrict the result for every combination
\* of arguments: a returned reminder is not due outside due_before/due_after,
\* also when include_completed is True; none is completed when include_completed
\* is False; each belongs to list_id when it is given; a list_id that does not
\* exist raises NotFoundError.
C25_FiltersRestrict ==
    /\ GotReminders =>
          \A i \in 1..Len(last.fetched) :
              /\ WithinDue(last.fetched[i], last.args, FALSE)
              /\ ~last.args.include_completed => ~last.fetched[i].is_completed
              /\ last.args.list_id # NoList => last.fetched[i].list_id = last.args.list_id
    /\ (last.op = "get_reminders" /\ last.args.list_id # NoList
            /\ last.args.list_id \notin lists) => last.out = NotFoundError

\* What holds: the due bounds restrict the result when include_completed is
\* False, and the other filters restrict it always.
FiltersRestrictIncomplete ==
    /\ GotReminders =>
          \A i \in 1..Len(last.fetched) :
              /\ ~last.args.include_completed => WithinDue(last.fetched[i], last.args, TRUE)
              /\ ~last.args.include_completed => ~last.fetched[i].is_completed
              /\ last.args.list_id # NoList => last.fetched[i].list_id = last.args.list_id
    /\ (last.op = "get_reminders" /\ last.args.list_id # NoList
            /\ last.args.list_id \notin lists) => last.out = NotFoundError

\* ---------------------------------------------------------------------------
\* Location alarms (store.py lines 484-492 and 610-630, converters.py lines
\* 215-250). An alarm is a time alarm (no structured location) or a location
\* alarm; a reminder of this section carries a sequence of alarms.

MaxAlarms == 2

NoLocation == [title |-> "None", proximity |-> "none"]
NoStructuredLocation == "None"
EKAlarmProximityNone == "none"
EKAlarmProximityEnter == "enter"
EKAlarmProximityLeave == "leave"

TimeAlarm == [structuredLocation |-> NoStructuredLocation, proximity |-> EKAlarmProximityNone]

\* The LocationTrigger values a caller passes.
LocationIn == {[title |-> "home", proximity |-> "enter"],
               [title |-> "work", proximity |-> "leave"]}

\* converters.py lines 215-250.
location_trigger_to_ek_alarm(location) ==
    [structuredLocation |-> location.title,
     proximity |-> IF location.proximity = "leave" THEN EKAlarmProximityLeave
                   ELSE EKAlarmProximityEnter]

\* store.py lines 610-630: every alarm with a structured location is removed.
remove_location_alarms(r) ==
    [r EXCEPT !.alarms = SelectSeq(@, LAMBDA alarm : alarm.structuredLocation = NoStructuredLocation)]

\* store.py lines 484-492: clear_location is tested first, location second.
WithLocation(r, location, clear_location) ==
    IF clear_location
    THEN remove_location_alarms(r)
    ELSE IF location # NoLocation
    THEN [remove_location_alarms(r) EXCEPT
            !.alarms = Append(@, location_trigger_to_ek_alarm(location))]
    ELSE r

\* store.py lines 437-500, update_reminder_sync with its location arguments.
update_reminder_location_sync(id, a, location, clear_location, ok) ==
    /\ LET i == GetReminderById(ekstore, id)
           args == a @@ [location |-> location, clear_location |-> clear_location] IN
       IF i = 0
       THEN /\ Record("update", id, NoList, args, NotFoundError, NoDict, "none", 0)
            /\ UNCHANGED ekstore
       ELSE SaveChanged("update", id, NoList, args, i,
                        WithLocation(Updated(ekstore[i], a), location, clear_location), ok)
    /\ UNCHANGED lists

\* tools/reminders.py lines 115-160.
UpdateReminderLocation(id, a, location, clear_location, ok) ==
    /\ nOps < MaxOps
    /\ update_reminder_location_sync(id, a, location, clear_location, ok)
    /\ UNCHANGED <<concVars, hsVars, runVars, srvVars, batch>>

RECURSIVE SeqsUpTo(_, _)
SeqsUpTo(S, n) ==
    IF n = 0 THEN {<<>>}
    ELSE LET shorter == SeqsUpTo(S, n - 1) IN
         shorter \cup {Append(s, x) : s \in shorter, x \in S}

AlarmsIn == {TimeAlarm} \cup {location_trigger_to_ek_alarm(l) : l \in LocationIn}

\* A database of one reminder with up to MaxAlarms alarms of any kind.
InitAlarm ==
    /\ InitHandshake /\ InitRun /\ InitServer /\ InitConc
    /\ \E alarms \in SeqsUpTo(AlarmsIn, MaxAlarms) :
          ekstore = <<PlainItem("reminder", "a", "a") @@ [alarms |-> alarms]>>
    /\ lists = {"L1"}
    /\ nOps = 0
    /\ last = NoOp
    /\ prev = NoOp
    /\ gone = {}
    /\ batch = NoBatch

NextAlarm ==
    \E id \in WhileOpsLeft({"a", "b"}), a \in {NoArgs, [NoArgs EXCEPT !.title = <<2>>]},
       location \in LocationIn \cup {NoLocation}, clear_location \in BOOLEAN, ok \in BOOLEAN :
       UpdateReminderLocation(id, a, location, clear_location, ok)

AlarmSpec == InitAlarm /\ [][NextAlarm]_vars

LocationAlarms(r) == SelectSeq(r.alarms, LAMBDA alarm : alarm.structuredLocation # NoStructuredLocation)

UpdatedWithLocationArgs == last.op = "update" /\ last.out = Ok

\* C26: after a successful update_reminder that provides a location the
\* reminder carries exactly one location alarm, the provided one; after a
\* successful one with clear_location=True and no location it carries no
\* location alarm; after one with neither its alarms are unchanged.
C26_LocationReplaced ==
    UpdatedWithLocationArgs =>
        LET r == ekstore[last.item]
            before == last.pre[last.item] IN
        /\ last.args.location # NoLocation =>
              LocationAlarms(r) = <<location_trigger_to_ek_alarm(last.args.location)>>
        /\ (last.args.clear_location /\ last.args.location = NoLocation) =>
              LocationAlarms(r) = <<>>
        /\ (~last.args.clear_location /\ last.args.location = NoLocation) =>
              r.alarms = before.alarms

\* What holds: the same for the calls that do not set clear_location together
\* with a location and whose save the native layer carried out; the alarms
\* without a location are kept in every case.
LocationReplacedUnlessCleared ==
    (UpdatedWithLocationArgs /\ last.native = "ok") =>
        LET r == ekstore[last.item]
            before == last.pre[last.item] IN
        /\ (last.args.location # NoLocation /\ ~last.args.clear_location) =>
              LocationAlarms(r) = <<location_trigger_to_ek_alarm(last.args.location)>>
        /\ last.args.clear_location => LocationAlarms(r) = <<>>
        /\ (~last.args.clear_location /\ last.args.location = NoLocation) =>
              r.alarms = before.alarms
        /\ SelectSeq(r.alarms, LAMBDA alarm : alarm.structuredLocation = NoStructuredLocation)
              = SelectSeq(before.alarms, LAMBDA alarm : alarm.structuredLocation = NoStructuredLocation)

\* ---------------------------------------------------------------------------
\* move_reminder.

Moved == last.op = "move"

\* C27: move_reminder raises NotFoundError when the reminder or the destination
\* list does not exist, and then changes nothing and issues no save; on success
\* the reminder belongs to the destination list and to no other.
C27_MoveAllOrNothing ==
    Moved =>
        /\ (GetReminderById(last.pre, last.id) = 0 \/ last.list \notin last.preLists) =>
              /\ last.out = NotFoundError
              /\ ekstore = last.pre
              /\ lists = last.preLists
              /\ last.native = "none"
        /\ last.out = Ok =>
              /\ ekstore[last.item].list = last.list
              /\ last.value.list_id = last.list
              /\ \A i \in 1..Len(ekstore) :
                    i # last.item => ekstore[i] = last.pre[i]

\* What holds: the NotFoundError half, and the success half for the moves
\* whose save the native layer carried out.
MoveAllOrNothingWhenSaved ==
    Moved =>
        /\ (GetReminderById(last.pre, last.id) = 0 \/ last.list \notin last.preLists) =>
              /\ last.out = NotFoundError
              /\ ekstore = last.pre
              /\ lists = last.preLists
              /\ last.native = "none"
        /\ (last.out = Ok /\ last.native = "ok") =>
              /\ ekstore[last.item].list = last.list
              /\ last.value.list_id = last.list
              /\ \A i \in 1..Len(ekstore) :
                    i # last.item => ekstore[i] = last.pre[i]

C27_Witness ==
    /\ Moved /\ last.out = Ok /\ last.native = "ok"
    /\ last.pre[last.item].list # last.list

\* ---------------------------------------------------------------------------
\* The permission handshake and the store operations.

\* A handshake is in progress from the native access request to the commit
\* of the singleton or the exception that ends get_instance.
HandshakeInProgress == \E t \in Threads : pc[t] \in {"wait", "eval", "commit"}

OperationExecuting == \E k \in Tasks : tpc[k] = "running"

\* C28: no permission handshake is in progress while a store operation
\* dispatched through run_eventkit executes, and once the singleton is
\* committed no handshake is started again.
C28_HandshakeNeverOverlapsOperation ==
    /\ [](~(HandshakeInProgress /\ OperationExecuting))
    /\ [](OperationExecuting => instance # 0)
    /\ [][instance # 0 => (nAttempts' = nAttempts /\ instance' = instance)]_vars

\* An operation executes while a later tool call is in get_instance, which
\* returns the committed singleton; the first handshake of the process failed.
C28_Witness ==
    /\ OperationExecuting
    /\ pc[LoopThread] = "ret"
    /\ nAttempts = 2

\* ---------------------------------------------------------------------------
\* Concurrent tool calls on the database: each task makes one tool call, a
\* call of a batch tool being a loop of run_eventkit calls, one per item
\* (tools/batch.py lines 26-35), and each store operation being a lookup
\* followed by a mutation and a save of the EKReminder it looked up
\* (e.g. store.py lines 502-527).

NoItem == [kind |-> "none"]

Single(tool, id, arg) ==
    [tool |-> tool, items |-> <<id>>, arg |-> arg, stage |-> "ready", done |-> 0,
     reminder |-> NoItem, ok |-> TRUE, out |-> NoResult,
     seen |-> [j \in Tasks |-> 0 - 1]]

BatchOf(tool, ids) == [Single(tool, "None", "None") EXCEPT !.items = ids]

\* The tool calls a task may make.
WorkIn ==
    {Single("update", "a", <<2>>), Single("complete", "a", TRUE),
     Single("move", "a", "L2"), Single("delete", "a", "None"),
     BatchOf("complete_reminders", <<"a", "b">>)}

\* The store operation a tool passes to run_eventkit, and its argument.
OperationOf(w) ==
    CASE w.tool = "complete_reminders" -> "complete"
      [] w.tool = "delete_reminders" -> "delete"
      [] OTHER -> w.tool
ArgOf(w) == IF w.tool = "complete_reminders" THEN TRUE ELSE w.arg
ItemOf(w) == w.items[w.done + 1]

\* The change an operation makes to the EKReminder it looked up.
Mutated(r, operation, arg) ==
    CASE operation = "update" -> Updated(r, [NoArgs EXCEPT !.title = arg])
      [] operation = "complete" -> [r EXCEPT !.completed = arg]
      [] operation = "move" -> [r EXCEPT !.list = arg]
      [] OTHER -> r

\* A lookup that ends the operation with NotFoundError.
Missing(operation, arg, found) ==
    found = NoItem \/ (operation = "move" /\ calendarWithIdentifier(arg) = NoList)

\* saveReminder:commit:error: and removeReminder:commit:error: on the object
\* in memory: the database takes the object's state.
Saved(store, operation, reminder) ==
    IF operation = "delete" THEN Without(store, {reminder.loc})
    ELSE [i \in 1..Len(store) |->
             IF store[i].loc = reminder.loc THEN reminder ELSE store[i]]

\* An operation run alone: lookup, mutation and save with nothing between.
ApplyOp(store, operation, id, arg, ok) ==
    LET i == GetReminderById(store, id)
        found == IF i = 0 THEN NoItem ELSE store[i] IN
    IF Missing(operation, arg, found) \/ ~ok THEN store
    ELSE Saved(store, operation, Mutated(found, operation, arg))

\* The tool awaits run_eventkit for its current item.
WorkSubmit(k) ==
    /\ work[k].stage = "ready"
    /\ Submit(k)

\* In the worker: _get_reminder_by_id (and the calendar lookup of a move).
WorkLookup(k, ok) ==
    /\ tpc[k] = "running"
    /\ work[k].stage = "ready"
    /\ LET i == GetReminderById(ekstore, ItemOf(work[k])) IN
       work' = [work EXCEPT ![k].stage = "found",
                            ![k].reminder = IF i = 0 THEN NoItem ELSE ekstore[i],
                            ![k].ok = ok]
    /\ shadow' = [store |-> ApplyOp(shadow.store, OperationOf(work[k]), ItemOf(work[k]),
                                    ArgOf(work[k]), ok),
                  order |-> Append(shadow.order, k)]
    /\ UNCHANGED <<cfgVars, cancelReq, fetch, stale, hsVars, runVars, srvVars, storeVars>>

\* In the worker: the setter and the save, or the NotFoundError.
WorkSave(k) ==
    /\ tpc[k] = "running"
    /\ work[k].stage = "found"
    /\ LET w == work[k]
           missing == Missing(OperationOf(w), ArgOf(w), w.reminder) IN
       /\ ekstore' = IF missing \/ ~w.ok THEN ekstore
                     ELSE Saved(ekstore, OperationOf(w),
                                Mutated(w.reminder, OperationOf(w), ArgOf(w)))
       /\ work' = [work EXCEPT ![k].stage = "saved",
                               ![k].out = IF missing THEN NotFoundError ELSE Ok]
    /\ UNCHANGED <<lists, nOps, last, prev, gone, batch, shadow, cfgVars, cancelReq, fetch,
                   stale, hsVars, runVars, srvVars>>

\* The operation returns or raises in the worker.
WorkEnds(k) ==
    /\ work[k].stage = "saved"
    /\ OpEnds(k, IF work[k].out = NotFoundError THEN Raised ELSE Value)

Count(q, j) == Cardinality({i \in 1..Len(q) : q[i] = j})

\* tools/batch.py lines 26-35: the loop goes on to the next item, whether the
\* item succeeded or raised; a tool of one item returns. The task notes who
\* is queueing for the permit at that moment.
NextItem(k) ==
    /\ tpc[k] = "idle"
    /\ LoopFree
    /\ work[k].stage = "saved"
    /\ work' = [work EXCEPT
                  ![k].done = @ + 1,
                  ![k].stage = IF work[k].done + 1 < Len(work[k].items) THEN "ready" ELSE "done",
                  ![k].reminder = NoItem,
                  ![k].seen = [j \in Tasks |->
                                 IF \E i \in 1..Len(waitq) : waitq[i] = j
                                 THEN Count(grantOrder, j) ELSE 0 - 1]]
    /\ UNCHANGED <<shadow, cfgVars, cancelReq, fetch, stale, hsVars, runVars, srvVars, storeVars>>

SerialSeed == <<PlainItem("reminder", "a", "a"), PlainItem("reminder", "b", "b")>>

InitSerial ==
    /\ InitHandshake /\ InitRun /\ InitServer
    /\ ekstore = SerialSeed
    /\ lists = {"L1", "L2"}
    /\ nOps = 0
    /\ last = NoOp
    /\ prev = NoOp
    /\ gone = {}
    /\ batch = NoBatch
    /\ cancelReq = [k \in Tasks |-> FALSE]
    /\ fetch = [k \in Tasks |-> "none"]
    /\ stale = {}
    /\ env = NoEnv
    /\ wait = NoWait
    /\ work \in [Tasks -> WorkIn]
    /\ shadow = [store |-> ekstore, order |-> <<>>]

NextSerial ==
    \E k \in Tasks :
        \/ WorkSubmit(k)
        \/ Dispatch(k)
        \/ \E ok \in BOOLEAN : WorkLookup(k, ok)
        \/ WorkSave(k)
        \/ WorkEnds(k)
        \/ Exit(k)
        \/ NextItem(k)

SerialSpec == InitSerial /\ [][NextSerial]_vars

Working == {k \in Tasks : work[k].tool # "none"}

\* C29: a mutating operation does its lookup, its mutation and its save in one
\* permit hold: no operation of another call executes between its lookup and
\* its save, and concurrent calls take effect as if run one after the other in
\* permit-grant order.
C29_SerialInGrantOrder ==
    /\ \A k \in Working :
          work[k].stage = "found" =>
              /\ k \in borrowers
              /\ \A j \in Tasks \ {k} : tpc[j] \notin {"running", "finished"}
    /\ Len(shadow.order) <= Len(grantOrder)
    /\ shadow.order = SubSeq(grantOrder, 1, Len(shadow.order))
    /\ (\A k \in Working : work[k].stage # "found") => ekstore = shadow.store

\* Two calls on the same reminder: the second is between its lookup and its
\* save after the first has changed the reminder.
C29_Witness ==
    \E k \in Working, j \in Working :
        /\ k # j
        /\ work[k].stage = "done" /\ work[k].out = Ok /\ work[k].ok
        /\ work[k].tool = "update" /\ work[j].tool = "complete"
        /\ work[j].stage = "found"
        /\ work[j].reminder # NoItem
        /\ work[j].reminder.f.title = <<2>>

====
